---- MODULE Spec2Model ----
(***************************************************************************)
(* Orchestration engine of ship: State Store (src/ship/state.py), Worker   *)
(* (src/ship/worker.py), Judge (src/ship/judge.py) and the queue/worker    *)
(* setup of the entry point (src/ship/__main__.py).                        *)
(*                                                                         *)
(* Scheduling.  All actors are coroutines of one asyncio event loop.  A    *)
(* coroutine gives up control only where an await really suspends: the     *)
(* Judge in asyncio.sleep and in its LLM calls, a worker in queue.get on   *)
(* an empty queue and in its subprocess calls.  Every StateManager method  *)
(* runs its body synchronously under a lock that is therefore never        *)
(* contended, and put on the unbounded queue never blocks, so each action  *)
(* below is the code between two real suspension points.  A worker blocked *)
(* in queue.get is resumed in the loop iteration after the put, before the *)
(* timer or subprocess event that resumes the Judge or _main: their        *)
(* actions wait for Quiescent.                                             *)
(***************************************************************************)
EXTENDS Integers, Sequences, FiniteSets, TLC

\* ---- bounds of the model ----
NPlan == 2          \* at most this many tasks in the store at startup
MaxTasks == 3       \* cap on the tasks in the store (startup + added ones)
NumWorkers == 2     \* at most this many workers (cfg.num_workers)
MaxFails == 2       \* cap on the number of failed executions in one run
MaxReply == 1       \* cap on the length of one refiner/replanner/verifier reply
MaxChallenges == 2  \* challenge texts the verifier draws from
MaxDeps == 1        \* at most this many ids in the depends of a planned task

\* ---- program constants ----
MAX_RETRIES == 10
CASCADE_PREFIX == "cascade:"
max_refine_rounds == 10
max_replan_rounds == 1
max_adv_rounds == 3
max_adv_attempts == 3
SampleSize == 2

PENDING == "pending"
RUNNING == "running"
COMPLETED == "completed"
FAILED == "failed"
TaskStatus == {PENDING, RUNNING, COMPLETED, FAILED}

Workers == 1..NumWorkers

\* worker_id of the i-th worker: f"w{i}" for i in range(num_workers)
WorkerIds == <<"w0", "w1", "w2", "w3">>
worker_id(w) == WorkerIds[w]
\* challenge texts of the verifier
ChallengeTexts == <<"c1", "c2", "c3", "c4">>
Challenges == {ChallengeTexts[k] : k \in 1..Len(ChallengeTexts)}

\* error texts, as sequences of tokens so that startswith is a real test
NoError == <<>>
PartialError == <<"worker reported partial">>
LlmError == <<"timeout after">>
CascadeError(failed_id) == <<CASCADE_PREFIX, " dependency ", failed_id, " failed">>

is_cascade_error(error) == Len(error) > 0 /\ error[1] = CASCADE_PREFIX

VARIABLES
    tasks,            \* StateManager.tasks: records in insertion order, id = index
    work_complete,    \* work.is_complete
    queue,            \* asyncio.Queue of tasks (their ids)
    wpc,              \* worker position: none, idle, exec, post, stopped
    wtask,            \* the task a worker took (0: none)
    jpc,              \* Judge position
    completed_queue,  \* Judge._completed_queue
    refine_count, replan_count, adv_round, adv_attempts,
    adv_task_ids, seen_challenges,
    use_codex,        \* cfg.use_codex
    fails,            \* failed executions so far (bounded by caps.fails)
    caps,             \* bounds of the run: tasks, fails, reply, texts
    hist,             \* per task: by_cascade, ever_cascaded, streak (history)
    jhist,            \* Judge: refail, empty_streak, enq (history)
    last,             \* what the last step did (history)
    proc,             \* the subprocess of an LLM call and the client's position
    disk,             \* the data directory: tasks.json, work.json, ship.lock
    boot,             \* an engine process: its position in _main, its exit
    has_work          \* StateManager.work is not None

vars == <<tasks, work_complete, queue, wpc, wtask, jpc, completed_queue,
          refine_count, replan_count, adv_round, adv_attempts,
          adv_task_ids, seen_challenges, use_codex, fails, caps, hist,
          jhist, last, proc, disk, boot, has_work>>

\* what the steps of a run leave alone: the subprocess of one LLM call,
\* the files, the engine process, the presence of the work state
envVars == <<proc, disk, boot, has_work>>

\* no LLM call is looked at
NoProc == [pc |-> "none"]

\* the data directory is not looked at; no engine process is starting
NoDisk == [dir |-> FALSE]
NoBoot == [pc |-> "none"]

\* _main has called init_work, or loaded the work state
NoEnv == proc = NoProc /\ disk = NoDisk /\ boot = NoBoot /\ has_work = TRUE

judgeVars == <<refine_count, replan_count, adv_round, adv_attempts,
               adv_task_ids, seen_challenges, jhist>>

Ids(ts) == 1..Len(ts)

Task(desc, deps, retries, status) ==
    [description |-> desc, status |-> status, retries |-> retries,
     error |-> NoError, depends_on |-> deps, followups |-> <<>>,
     started_at |-> status = COMPLETED, completed_at |-> status = COMPLETED,
     worker |-> "auto"]

\* ever_running: the task has had status running; running_since_reset: it
\* has had it since it was created or last put back to pending
\* prior_completed: the task was completed in the interrupted run that this
\* run continues
NoHist == [by_cascade |-> FALSE, ever_cascaded |-> FALSE, streak |-> 0,
           ever_running |-> FALSE, running_since_reset |-> FALSE,
           prior_completed |-> FALSE]

NoJHist == [refail |-> FALSE, empty_streak |-> 0, enq |-> {}]

\* ---- StateManager ----

update_taskMut(ts, id, status, error, followups) ==
    IF id \notin Ids(ts) THEN ts
    ELSE [ts EXCEPT ![id] =
            [@ EXCEPT !.status = status,
                      !.error = IF error # NoError THEN error ELSE @,
                      !.followups = IF followups # <<>> THEN followups ELSE @,
                      !.completed_at =
                          IF status \in {COMPLETED, FAILED} THEN TRUE ELSE @]]

\* StateManager.update_task
update_task(ts, id, status, error, followups) ==
    IF id \notin Ids(ts) THEN ts
    ELSE [ts EXCEPT ![id] =
            [@ EXCEPT !.status = status,
                      !.error = IF error # NoError THEN error ELSE @,
                      !.followups = IF followups # <<>> THEN followups ELSE @,
                      !.started_at =
                          IF ts[id].status # RUNNING /\ status = RUNNING
                          THEN TRUE ELSE @,
                      !.completed_at =
                          IF status \in {COMPLETED, FAILED} THEN TRUE ELSE @]]

retry_taskMut(ts, id) ==
    IF id \notin Ids(ts) THEN ts
    ELSE [ts EXCEPT ![id] =
            [@ EXCEPT !.status = PENDING, !.error = NoError,
                      !.started_at = FALSE, !.completed_at = FALSE]]

\* StateManager.retry_task
retry_task(ts, id) ==
    IF id \notin Ids(ts) THEN ts
    ELSE [ts EXCEPT ![id] =
            [@ EXCEPT !.retries = @ + 1, !.status = PENDING,
                      !.error = NoError,
                      !.started_at = FALSE, !.completed_at = FALSE]]

is_completeMut(ts, hw, wc) ==
    /\ hw
    /\ \/ wc
       \/ \A i \in Ids(ts) : ts[i].status \notin {PENDING, RUNNING}

\* StateManager.is_complete: hw is "self.work is not None", wc is
\* work.is_complete
is_complete(ts, hw, wc) ==
    /\ hw
    /\ \/ wc
       \/ /\ \A i \in Ids(ts) : ts[i].status \notin {PENDING, RUNNING}
          /\ Len(ts) > 0

CascadeHitMut(t, failed_id) == failed_id \in t.depends_on

\* the condition of the inner loop of cascade_failure
CascadeHit(t, failed_id) ==
    /\ failed_id \in t.depends_on
    /\ t.status \in {PENDING, RUNNING}

CascadeMarkFlat(st, i, failed_id) ==
    [tasks |-> [st.tasks EXCEPT ![i] =
                   [@ EXCEPT !.status = FAILED,
                             !.error = CascadeError(failed_id),
                             !.completed_at = TRUE]],
     cascaded |-> Append(st.cascaded, i),
     queue |-> st.queue]

CascadeMarkSilent(st, i, failed_id) ==
    [tasks |-> [st.tasks EXCEPT ![i] =
                   [@ EXCEPT !.status = FAILED,
                             !.error = CascadeError(failed_id),
                             !.completed_at = TRUE]],
     cascaded |-> IF st.tasks[i].status = RUNNING
                  THEN st.cascaded ELSE Append(st.cascaded, i),
     queue |-> Append(st.queue, i)]

\* the body of the inner loop: the task fails, its id is returned and queued
CascadeMark(st, i, failed_id) ==
    [tasks |-> [st.tasks EXCEPT ![i] =
                   [@ EXCEPT !.status = FAILED,
                             !.error = CascadeError(failed_id),
                             !.completed_at = TRUE]],
     cascaded |-> Append(st.cascaded, i),
     queue |-> Append(st.queue, i)]

RECURSIVE CascadeScan(_, _, _, _)
\* for task in self.tasks.values(): one pass for failed_id, from index i
CascadeScan(st, failed_id, i, n) ==
    IF i > n THEN st
    ELSE IF CascadeHit(st.tasks[i], failed_id)
         THEN CHOOSE r \in {CascadeScan(marked, failed_id, i + 1, n) :
                               marked \in {CascadeMark(st, i, failed_id)}} :
                  TRUE
         ELSE CascadeScan(st, failed_id, i + 1, n)

RECURSIVE CascadeLoop(_, _)
\* while queue: failed_id = queue.pop(0); ...   The queue is popped at most
\* Len(tasks) + 1 times, since a task is appended only when its status changes
\* to failed; fuel states that bound.
CascadeLoop(st, fuel) ==
    IF st.queue = <<>> \/ fuel = 0 THEN st
    ELSE CHOOSE r \in {CascadeLoop(scanned, fuel - 1) :
                scanned \in {CascadeScan([st EXCEPT !.queue = Tail(st.queue)],
                                         Head(st.queue), 1, Len(st.tasks))}} :
             TRUE

\* returns [tasks, cascaded]
cascade_failure(ts, task_id) ==
    LET r == CascadeLoop([tasks |-> ts, cascaded |-> <<>>, queue |-> <<task_id>>],
                         Len(ts) + 1)
    IN [tasks |-> r.tasks, cascaded |-> r.cascaded]

reset_interrupted_tasksMut(ts) ==
    [i \in 1..Len(ts) |->
        IF ts[i].status \in {RUNNING, FAILED}
        THEN [ts[i] EXCEPT !.status = PENDING, !.error = NoError,
                           !.started_at = FALSE, !.completed_at = FALSE]
        ELSE ts[i]]

\* StateManager.reset_interrupted_tasks
reset_interrupted_tasks(ts) ==
    [i \in 1..Len(ts) |->
        IF ts[i].status \in {RUNNING, FAILED}
        THEN [ts[i] EXCEPT !.status = PENDING, !.retries = 0,
                           !.error = NoError,
                           !.started_at = FALSE, !.completed_at = FALSE]
        ELSE ts[i]]

\* ---- workers taking tasks from the queue ----

\* no worker blocked in queue.get has an item to take
Quiescent == queue = <<>> \/ \A w \in Workers : wpc[w] # "idle"

\* Worker.run: task = await queue.get(); _execute: update_task(RUNNING)
\* (worker.py 51-67), up to the first subprocess call.  The workers are
\* interchangeable (no code reads worker_id to decide anything), so of the
\* blocked workers the one with the least index takes the item.
WorkerStart(w) ==
    /\ wpc[w] = "idle"
    /\ \A v \in Workers : wpc[v] = "idle" => w <= v
    /\ queue # <<>>
    /\ jpc # "init"
    /\ tasks' = update_task(tasks, Head(queue), RUNNING, NoError, <<>>)
    /\ queue' = Tail(queue)
    /\ wpc' = [wpc EXCEPT ![w] = "exec"]
    /\ wtask' = [wtask EXCEPT ![w] = Head(queue)]
    /\ hist' = [hist EXCEPT ![Head(queue)].ever_running = TRUE,
                            ![Head(queue)].running_since_reset = TRUE]
    /\ last' = [op |-> "start"]
    /\ UNCHANGED <<work_complete, jpc, completed_queue, judgeVars,
                   use_codex, caps, envVars, fails>>

\* ---- Judge: retry / cascade (judge.py 245-275) ----

RetriesExhaustedMut(t) == t.retries > MAX_RETRIES

\* if task.retries >= MAX_RETRIES
RetriesExhausted(t) == t.retries >= MAX_RETRIES

IsRetryableMut(t, id, adv) ==
    /\ t.status = FAILED
    /\ ~is_cascade_error(t.error)

IsRetryableAnyStatus(t, id, adv) ==
    /\ t.status # COMPLETED
    /\ id \notin adv
    /\ ~is_cascade_error(t.error)

IsRetryableCascaded(t, id, adv) ==
    /\ t.status = FAILED
    /\ id \notin adv

\* the filter of the retryable list
IsRetryable(t, id, adv) ==
    /\ t.status = FAILED
    /\ id \notin adv
    /\ ~is_cascade_error(t.error)

Retryable(snap, adv) ==
    SelectSeq([i \in 1..Len(snap) |-> i],
              LAMBDA i : IsRetryable(snap[i], i, adv))

RECURSIVE RetryLoop(_, _, _)
\* for task in retryable: cascade_failure or retry_task + queue.put
RetryLoop(st, lst, snap) ==
    IF lst = <<>> THEN st
    ELSE LET id == Head(lst) IN
         IF RetriesExhausted(snap[id])
         THEN CHOOSE r \in
                {RetryLoop([st EXCEPT !.tasks = c.tasks,
                                      !.casc = Append(@, id),
                                      !.rets = Append(@, c.cascaded)],
                           Tail(lst), snap) :
                    c \in {cascade_failure(st.tasks, id)}} : TRUE
         ELSE CHOOSE r \in
                {RetryLoop(retried, Tail(lst), snap) :
                    retried \in
                      {[st EXCEPT !.tasks = retry_task(@, id),
                                  !.queue = Append(@, id),
                                  !.retried = Append(@, id),
                                  !.was = Append(@, st.tasks[id].status)]}} :
                  TRUE

check_adv_batchMut(ts, adv) ==
    LET adv_tasks == {i \in Ids(ts) : i \in adv} IN
    IF Cardinality(adv_tasks) # Cardinality(adv) THEN "pending"
    ELSE IF \E i \in adv_tasks : ts[i].status \in {PENDING, RUNNING} THEN "pending"
    ELSE "pass"

check_adv_batchEager(ts, adv) ==
    LET adv_tasks == {i \in Ids(ts) : i \in adv} IN
    IF Cardinality(adv_tasks) # Cardinality(adv) THEN "pending"
    ELSE IF \A i \in adv_tasks : ts[i].status \in {PENDING, RUNNING} THEN "pending"
    ELSE IF \E i \in adv_tasks : ts[i].status = FAILED THEN "fail"
    ELSE "pass"

\* Judge._check_adv_batch
check_adv_batch(ts, adv) ==
    LET adv_tasks == {i \in Ids(ts) : i \in adv} IN
    IF Cardinality(adv_tasks) # Cardinality(adv) THEN "pending"
    ELSE IF \E i \in adv_tasks : ts[i].status \in {PENDING, RUNNING} THEN "pending"
    ELSE IF \E i \in adv_tasks : ts[i].status = FAILED THEN "fail"
    ELSE "pass"

AdvDoneMut(round) == round >= max_adv_rounds - 1

\* if self.adv_round >= self.max_adv_rounds
AdvDone(round) == round >= max_adv_rounds

Step == [op |-> "step"]

\* an LLM call of the Judge came back: a call that raised is remembered
Called(ok) == IF ok THEN Step ELSE [op |-> "failed call"]

SeqToSet(s) == {s[i] : i \in 1..Len(s)}
Flatten2(ss) == UNION {SeqToSet(ss[i]) : i \in 1..Len(ss)}

\* history of cascade marks after a tick that returned the lists rets
MarkRetried(h, retried) ==
    [i \in 1..Len(h) |->
        IF \E k \in 1..Len(retried) : retried[k] = i
        THEN [h[i] EXCEPT !.running_since_reset = FALSE]
        ELSE h[i]]

MarkCascaded(h, rets) ==
    [i \in 1..Len(h) |->
        IF i \in Flatten2(rets)
        THEN [h[i] EXCEPT !.by_cascade = TRUE, !.ever_cascaded = TRUE]
        ELSE h[i]]

LadderMut(stage, rc, pc, aa) ==
    IF stage <= 1 /\ use_codex /\ rc < max_refine_rounds
    THEN [jpc |-> "refining", rc |-> rc + 1, pc |-> pc, aa |-> aa]
    ELSE IF stage <= 2 /\ pc < max_replan_rounds
    THEN [jpc |-> "replanning", rc |-> rc, pc |-> pc + 1, aa |-> aa]
    ELSE IF aa + 1 > max_adv_attempts
    THEN [jpc |-> "done", rc |-> rc, pc |-> pc, aa |-> aa + 1]
    ELSE [jpc |-> "verifying", rc |-> rc, pc |-> pc, aa |-> aa]

LadderFourCalls(stage, rc, pc, aa) ==
    IF stage <= 1 /\ use_codex /\ rc < max_refine_rounds
    THEN [jpc |-> "refining", rc |-> rc + 1, pc |-> pc, aa |-> aa]
    ELSE IF stage <= 2 /\ pc < max_replan_rounds
    THEN [jpc |-> "replanning", rc |-> rc, pc |-> pc + 1, aa |-> aa]
    ELSE IF aa + 1 > max_adv_attempts + 1
    THEN [jpc |-> "done", rc |-> rc, pc |-> pc, aa |-> aa + 1]
    ELSE [jpc |-> "verifying", rc |-> rc, pc |-> pc, aa |-> aa + 1]

\* the convergence ladder from a stage on (judge.py 315-363), up to the
\* next LLM call; stage 1: refine, 2: replan, 3: adversarial round
Ladder(stage, rc, pc, aa) ==
    IF stage <= 1 /\ use_codex /\ rc < max_refine_rounds
    THEN [jpc |-> "refining", rc |-> rc + 1, pc |-> pc, aa |-> aa]
    ELSE IF stage <= 2 /\ pc < max_replan_rounds
    THEN [jpc |-> "replanning", rc |-> rc, pc |-> pc + 1, aa |-> aa]
    ELSE IF aa + 1 > max_adv_attempts
    THEN [jpc |-> "done", rc |-> rc, pc |-> pc, aa |-> aa + 1]
    ELSE [jpc |-> "verifying", rc |-> rc, pc |-> pc, aa |-> aa + 1]

\* primes the Judge's position and counters after the ladder; gave up:
\* mark_complete and return
Climb(stage) ==
    LET l == Ladder(stage, refine_count, replan_count, adv_attempts) IN
    /\ jpc' = l.jpc
    /\ refine_count' = l.rc
    /\ replan_count' = l.pc
    /\ adv_attempts' = l.aa
    /\ work_complete' = (work_complete \/ l.jpc = "done")
    /\ jhist' = [jhist EXCEPT !.refail =
                    IF l.jpc \in {"refining", "replanning"} THEN FALSE ELSE @]
    /\ UNCHANGED <<adv_round, adv_task_ids, seen_challenges>>

\* one pass of the Judge loop from the snapshot (245) to the next await
TickBody(ts) ==
    LET snap == ts IN
    /\ Quiescent
    /\ \E r \in {RetryLoop([tasks |-> ts, queue |-> queue,
                             retried |-> <<>>, was |-> <<>>,
                             casc |-> <<>>, rets |-> <<>>],
                            Retryable(snap, adv_task_ids), snap)} :
        LET outcome == check_adv_batch(r.tasks, adv_task_ids)
        IN /\ tasks' = r.tasks
           /\ queue' = r.queue
           /\ hist' = MarkRetried(MarkCascaded(hist, r.rets), r.retried)
           /\ last' = [op |-> "tick", retried |-> r.retried, was |-> r.was,
                       casc |-> r.casc, rets |-> r.rets]
           /\ UNCHANGED <<completed_queue, use_codex, caps, envVars, fails, wpc, wtask>>
           /\ IF adv_task_ids # {}
              THEN CASE outcome = "pending" ->
                          /\ jpc' = "sleep"
                          /\ UNCHANGED <<judgeVars, work_complete>>
                     [] outcome = "fail" ->
                          /\ jpc' = "sleep"
                          /\ adv_task_ids' = {}
                          /\ seen_challenges' = {}
                          /\ adv_round' = 0
                          /\ refine_count' = 0
                          /\ replan_count' = 0
                          /\ jhist' = [jhist EXCEPT !.refail = TRUE, !.enq = {}]
                          /\ UNCHANGED <<adv_attempts, work_complete>>
                     [] OTHER ->
                          /\ adv_round' = adv_round + 1
                          /\ adv_task_ids' = {}
                          /\ jpc' = IF AdvDone(adv_round + 1)
                                    THEN "done" ELSE "sleep"
                          /\ work_complete' =
                                (work_complete \/ AdvDone(adv_round + 1))
                          /\ UNCHANGED <<refine_count, replan_count, adv_attempts,
                                         seen_challenges, jhist>>
              ELSE IF ~is_complete(r.tasks, has_work, work_complete)
              THEN /\ jpc' = "sleep"
                   /\ UNCHANGED <<judgeVars, work_complete>>
              ELSE Climb(1)

\* the outcomes of an LLM call of the Judge, seen from the caller: it
\* returned, or it raised a RuntimeError that the caller caught
LlmOutcomes == {"ok", "failed"}

_judge_taskMut(ts, llm) ==
    [i \in DOMAIN ts |->
        IF llm = "failed" /\ ts[i].status = COMPLETED
        THEN [ts[i] EXCEPT !.status = FAILED] ELSE ts[i]]

\* Judge._judge_task: the store after the call; the verdict is discarded
\* and a RuntimeError is logged, neither branch writes a task
_judge_task(ts, llm) == ts

\* asyncio.sleep(5) is over, _completed_queue holds a task: _judge_task
JudgeWakeVerify ==
    /\ jpc = "sleep"
    /\ Quiescent
    /\ completed_queue # <<>>
    /\ completed_queue' = Tail(completed_queue)
    /\ jpc' = "judging"
    /\ last' = Step
    /\ UNCHANGED <<tasks, work_complete, queue, wpc, wtask, judgeVars,
                   use_codex, caps, envVars, fails, hist>>

\* a _judge_task call returned a verdict (llm = "ok") or raised; the next
\* one starts
JudgeVerdictOf(llm) ==
    /\ jpc = "judging"
    /\ Quiescent
    /\ completed_queue # <<>>
    /\ completed_queue' = Tail(completed_queue)
    /\ tasks' = _judge_task(tasks, llm)
    /\ last' = [op |-> "verdict", llm |-> llm]
    /\ UNCHANGED <<work_complete, queue, wpc, wtask, jpc, judgeVars,
                   use_codex, caps, envVars, fails, hist>>

JudgeVerdict == \E llm \in LlmOutcomes : JudgeVerdictOf(llm)

JudgeTickAfterSleep ==
    /\ jpc = "sleep"
    /\ completed_queue = <<>>
    /\ TickBody(tasks)

\* the last _judge_task call returned or raised, the pass goes on
JudgeTickAfterVerdictOf(llm) ==
    /\ jpc = "judging"
    /\ completed_queue = <<>>
    /\ TickBody(_judge_task(tasks, llm))

JudgeTickAfterVerdict == \E llm \in LlmOutcomes : JudgeTickAfterVerdictOf(llm)

\* ---- Judge: refiner, replanner, verifier replies ----

\* replies of an LLM call: it returned the listed items, or it raised
\* (ok = FALSE) with the items of its partial output
Replies(alphabet) ==
    {[ok |-> b, items |-> s] :
        b \in BOOLEAN, s \in UNION {[1..n -> alphabet] : n \in 0..caps.reply}}

\* add_task for each new task (fresh uuid: the next index)
AddTasks(ts, descs) ==
    ts \o [i \in 1..Len(descs) |-> Task(descs[i], {}, 0, PENDING)]

NewIdsNone(ts, descs) == <<>>

\* the ids of the new tasks, in the order of the queue.put calls
NewIds(ts, descs) == [i \in 1..Len(descs) |-> Len(ts) + i]

ParsedTasksMut(reply) == reply.items

\* new_tasks of Refiner.refine / Replanner.replan, challenges of the
\* verifier: [] when the call raised
ParsedTasks(reply) == IF reply.ok THEN reply.items ELSE <<>>

\* primes the store and the queue after new tasks were added and put
Enqueue(descs) ==
    /\ tasks' = AddTasks(tasks, descs)
    /\ queue' = queue \o NewIds(tasks, descs)
    /\ hist' = hist \o [i \in 1..Len(descs) |-> NoHist]

\* refiner.refine() returned, its LLM call having replied reply
\* (judge.py 325-332)
JudgeRefineReturnOf(reply) ==
    /\ jpc = "refining"
    /\ Quiescent
    /\ LET new_tasks == ParsedTasks(reply) IN
         /\ new_tasks = <<>> \/ Len(tasks) + Len(new_tasks) <= caps.tasks
         /\ Enqueue(new_tasks)
         /\ IF new_tasks # <<>>
            THEN /\ jpc' = "sleep"
                 /\ UNCHANGED <<judgeVars, work_complete>>
            ELSE Climb(2)
    /\ last' = Called(reply.ok)
    /\ UNCHANGED <<completed_queue, use_codex, caps, envVars, fails, wpc, wtask>>

JudgeRefineReturn == \E reply \in Replies({"followup"}) : JudgeRefineReturnOf(reply)

\* replanner.replan() returned, its LLM call having replied reply
\* (judge.py 344-351)
JudgeReplanReturnOf(reply) ==
    /\ jpc = "replanning"
    /\ Quiescent
    /\ LET new_tasks == ParsedTasks(reply) IN
         /\ new_tasks = <<>> \/ Len(tasks) + Len(new_tasks) <= caps.tasks
         /\ Enqueue(new_tasks)
         /\ IF new_tasks # <<>>
            THEN /\ jpc' = "sleep"
                 /\ UNCHANGED <<judgeVars, work_complete>>
            ELSE Climb(3)
    /\ last' = Called(reply.ok)
    /\ UNCHANGED <<completed_queue, use_codex, caps, envVars, fails, wpc, wtask>>

JudgeReplanReturn == \E reply \in Replies({"followup"}) : JudgeReplanReturnOf(reply)

\* random.sample(novel, k): k positions of novel, in any order
Samples(novel, k) ==
    {[i \in 1..k |-> novel[f[i]]] :
        f \in {g \in [1..k -> 1..Len(novel)] :
                 \A a, b \in 1..k : a # b => g[a] # g[b]}}

Min2(a, b) == IF a <= b THEN a ELSE b

\* verifier.execute returned or raised: reply (judge.py 176-213)
JudgeVerifierReturnOf(reply) ==
    /\ jpc = "verifying"
    /\ Quiescent
    /\ LET challenges == ParsedTasks(reply)
             novel == SelectSeq(challenges, LAMBDA c : c \notin seen_challenges)
         IN IF novel = <<>>
            THEN /\ Enqueue(<<>>)
                 /\ jhist' = [jhist EXCEPT
                                !.empty_streak = Min2(@ + 1, max_adv_attempts)]
                 /\ UNCHANGED <<adv_task_ids, seen_challenges>>
            ELSE \E picked \in Samples(novel, Min2(SampleSize, Len(novel))) :
                   /\ Len(tasks) + Len(picked) <= caps.tasks
                   /\ Enqueue(picked)
                   /\ seen_challenges' = seen_challenges \cup SeqToSet(picked)
                   /\ adv_task_ids' = SeqToSet(NewIds(tasks, picked))
                   /\ jhist' = [jhist EXCEPT
                                  !.empty_streak = 0,
                                  !.enq = @ \cup SeqToSet(picked)]
    /\ jpc' = "sleep"
    /\ last' = Called(reply.ok)
    /\ UNCHANGED <<work_complete, completed_queue, refine_count, replan_count,
                   adv_round, adv_attempts, use_codex, caps, envVars, fails, wpc, wtask>>

\* the challenges the verifier comes up with in this run
RunChallenges == {ChallengeTexts[k] : k \in 1..caps.chal}

JudgeVerifierReturn ==
    \E reply \in Replies(RunChallenges) : JudgeVerifierReturnOf(reply)

\* ---- workers ----

\* the parts of a text that _parse_output looks for
S_DONE == "<status>done</status>"
S_PARTIAL == "<status>partial</status>"
SUMMARY == "<summary>s</summary>"
FOLLOWUPS == "<followups><task>rest</task></followups>"

\* result texts of the LLM call of a worker (the partial output when it
\* raised) and replies to a resumed session (reformat, summarize; empty when
\* the resume failed): the well-formed ones, and more
GoodTexts == {<<SUMMARY, S_DONE>>, <<SUMMARY, S_PARTIAL>>}
GoodResumes == {<<>>}
MoreTexts ==
    {<<>>, <<S_DONE>>, <<S_PARTIAL>>, <<S_PARTIAL, S_DONE>>, <<SUMMARY>>,
     <<SUMMARY, S_PARTIAL, FOLLOWUPS>>}
MoreResumes ==
    {<<SUMMARY, S_DONE>>, <<SUMMARY, S_PARTIAL>>,
     <<SUMMARY, S_PARTIAL, FOLLOWUPS>>}

\* the <status> tags of a text, in order
StatusTags(text) == SelectSeq(text, LAMBDA x : x \in {S_DONE, S_PARTIAL})

parse_statusMut(text) ==
    IF StatusTags(text) = <<>> THEN "partial"
    ELSE IF Head(StatusTags(text)) = S_PARTIAL THEN "partial" ELSE "done"

\* m = re.search(<status>(done|partial)</status>); m.group(1) if m else done
parse_status(text) ==
    IF StatusTags(text) = <<>> THEN "done"
    ELSE IF Head(StatusTags(text)) = S_PARTIAL THEN "partial" ELSE "done"

\* Worker._parse_output; tag: the status tag that was found
parse_output(text) ==
    [status |-> parse_status(text),
     tag |-> IF StatusTags(text) = <<>> THEN "none"
             ELSE IF Head(StatusTags(text)) = S_PARTIAL THEN "partial"
             ELSE "done",
     followups |-> IF FOLLOWUPS \in SeqToSet(text) THEN <<"rest">> ELSE <<>>,
     summary |-> SUMMARY \in SeqToSet(text)]

\* the call returned text: the parse of it, or of the reformatted output
\* when there is a session and a tag is missing (worker.py 112-121)
ParsedResult(text, session, resumed) ==
    LET first == parse_output(text) IN
    IF session /\ (~first.summary \/ StatusTags(text) = <<>>) /\ resumed # <<>>
    THEN parse_output(resumed)
    ELSE first

\* the call raised: the parse of result_text, which is the summary of the
\* resumed session, else the partial output, else the error message
\* (worker.py 164-181)
ParsedError(partial, session, resumed) ==
    parse_output(IF session /\ resumed # <<>> THEN resumed ELSE partial)

WorkerFailedMut(ts, id, raised, followups) ==
    IF raised THEN ts
    ELSE update_task(ts, id, FAILED, PartialError, followups)

\* update_task(FAILED, error=...) of the partial and of the ClaudeError path
WorkerFailed(ts, id, raised, followups) ==
    update_task(ts, id, FAILED,
                IF raised THEN LlmError ELSE PartialError, followups)

OutcomeHist(h, id, failed) ==
    [h EXCEPT ![id].by_cascade = FALSE,
              ![id].streak = IF failed THEN @ + 1 ELSE 0]

\* what the LLM calls of one execution come to: whether execute raised,
\* and the status, its tag and the followups that were parsed
OutcomesOf(WorkerTexts, ResumeTexts) ==
    {[raised |-> c[1],
      status |-> (IF c[1] THEN ParsedError(c[2], c[3], c[4])
                  ELSE ParsedResult(c[2], c[3], c[4])).status,
      tag |-> (IF c[1] THEN ParsedError(c[2], c[3], c[4])
               ELSE ParsedResult(c[2], c[3], c[4])).tag,
      followups |-> (IF c[1] THEN ParsedError(c[2], c[3], c[4])
                     ELSE ParsedResult(c[2], c[3], c[4])).followups] :
        c \in {d \in BOOLEAN \X WorkerTexts \X BOOLEAN \X ResumeTexts :
                 ~d[3] => d[4] = <<>>}}

GoodOutcomes == OutcomesOf(GoodTexts, GoodResumes)
AllOutcomes ==
    OutcomesOf(GoodTexts \cup MoreTexts, GoodResumes \cup MoreResumes)

\* the outcomes drawn in this run
WorkerOutcomes == IF caps.texts = "all" THEN AllOutcomes ELSE GoodOutcomes

\* the LLM calls of Worker._execute came to the outcome o
\* (worker.py 106-208)
WorkerFinishOf(w, o) ==
    /\ wpc[w] = "exec"
    /\ LET id == wtask[w]
             failed == o.raised \/ o.status = "partial"
         IN /\ hist' = OutcomeHist(hist, id, failed)
            /\ IF ~failed
               THEN /\ tasks' = update_task(tasks, id, COMPLETED, NoError, <<>>)
                    /\ completed_queue' = Append(completed_queue, id)
                    /\ wpc' = [wpc EXCEPT ![w] = "post"]
                    /\ UNCHANGED <<queue, wtask, fails>>
               ELSE /\ fails < caps.fails
                    /\ fails' = fails + 1
                    /\ tasks' = WorkerFailed(tasks, id, o.raised, o.followups)
                    /\ wpc' = [wpc EXCEPT ![w] = "idle"]
                    /\ UNCHANGED <<queue, wtask, completed_queue>>
    /\ last' = Step
    /\ UNCHANGED <<work_complete, jpc, judgeVars, use_codex, caps, envVars>>

WorkerFinish(w) == \E o \in WorkerOutcomes : WorkerFinishOf(w, o)

\* after a completed task (_git_diff_stat, task_done) the worker is back at
\* queue.get
WorkerNext(w) ==
    /\ wpc[w] = "post"
    /\ wpc' = [wpc EXCEPT ![w] = "idle"]
    /\ last' = Step
    /\ UNCHANGED <<tasks, queue, wtask, work_complete, jpc, completed_queue,
                   judgeVars, use_codex, caps, envVars, fails, hist>>

\* ---- entry point ----

\* retries of a pending task at startup: 0 on a new run; on continuation
\* reset_interrupted_tasks leaves a pending task's retries as the Judge's
\* retry_task of the interrupted run set them, up to MAX_RETRIES
InitRetries == {0, MAX_RETRIES}

InitTasks(n) ==
    [1..n -> {Task("plan", {}, r, PENDING) : r \in InitRetries}]

DepGraphs(n) ==
    {g \in [1..n -> SUBSET (1..n)] : \A i \in 1..n : i \notin g[i]}

\* the graphs of a plan whose depends attributes are short
PlanGraphs(n) ==
    {g \in DepGraphs(n) : \A i \in 1..n : Cardinality(g[i]) <= MaxDeps}

\* the graph of a plan without depends attributes
NoDeps(n) == {[i \in 1..n |-> {}]}

\* the Judge and the workers as _main created them
InitActors ==
    /\ \E nw \in 1..NumWorkers :
         wpc = [w \in Workers |-> IF w <= nw THEN "idle" ELSE "none"]
    /\ wtask = [w \in Workers |-> 0]
    /\ use_codex \in BOOLEAN
    /\ work_complete = FALSE
    /\ jpc = "init"
    /\ completed_queue = <<>>
    /\ refine_count = 0
    /\ replan_count = 0
    /\ adv_round = 0
    /\ adv_attempts = 0
    /\ adv_task_ids = {}
    /\ seen_challenges = {}
    /\ fails = 0
    /\ jhist = NoJHist
    /\ last = Step

\* the store and the queue as _main seeded them: n pending tasks, one of
\* the plans of tss, with a dependency graph of graphs
InitStore(n, tss, graphs) ==
    \E ts \in tss :
      \E g \in graphs :
         /\ tasks = [i \in 1..n |-> [ts[i] EXCEPT !.depends_on = g[i]]]
         /\ queue = [i \in 1..n |-> i]
         /\ hist = [i \in 1..n |-> NoHist]

\* the state when _main has seeded the queue and created workers and Judge
Init ==
    /\ \E n \in 1..NPlan : InitStore(n, InitTasks(n), PlanGraphs(n))
    /\ caps = [tasks |-> MaxTasks, fails |-> MaxFails, reply |-> MaxReply,
               texts |-> "good", chal |-> MaxChallenges]
    /\ InitActors
    /\ NoEnv

\* create_task for the workers and the Judge: the Judge sleeps
StartActors ==
    /\ jpc = "init"
    /\ jpc' = "sleep"
    /\ last' = Step
    /\ UNCHANGED <<tasks, queue, wpc, wtask, work_complete, completed_queue,
                   judgeVars, use_codex, caps, envVars, fails, hist>>

\* judge_task is done: _main cancels the workers
MainExit ==
    /\ jpc = "done"
    /\ Quiescent
    /\ jpc' = "exited"
    /\ wpc' = [w \in Workers |-> IF wpc[w] = "none" THEN "none" ELSE "stopped"]
    /\ last' = Step
    /\ UNCHANGED <<tasks, work_complete, queue, wtask, completed_queue,
                   judgeVars, use_codex, caps, envVars, fails, hist>>

Next ==
    \/ StartActors
    \/ \E w \in Workers : WorkerStart(w)
    \/ \E w \in Workers : WorkerFinish(w)
    \/ \E w \in Workers : WorkerNext(w)
    \/ JudgeWakeVerify
    \/ JudgeVerdict
    \/ JudgeTickAfterSleep
    \/ JudgeTickAfterVerdict
    \/ JudgeRefineReturn
    \/ JudgeReplanReturn
    \/ JudgeVerifierReturn
    \/ MainExit

Spec == Init /\ [][Next]_vars

\* ---- a new run that may fail often ----

RetryPlan == 2      \* at most this many planned tasks
RetryTasks == 2     \* cap on the tasks in the store
RetryFails == 11    \* cap on the failed executions: MAX_RETRIES + 1

\* the plan of a new run: no task has been retried, and here no task
\* depends on another
FreshTasks(n) == [1..n -> {Task("plan", {}, 0, PENDING)}]

InitRetry ==
    /\ \E n \in 1..RetryPlan : InitStore(n, FreshTasks(n), NoDeps(n))
    /\ caps = [tasks |-> RetryTasks, fails |-> RetryFails, reply |-> MaxReply,
               texts |-> "good", chal |-> MaxChallenges]
    /\ InitActors
    /\ NoEnv

SpecRetry == InitRetry /\ [][Next]_vars

\* ---- a new run of one task with room for adversarial rounds ----

AdvPlan == 1        \* at most this many planned tasks
AdvTasks == 4       \* cap on the tasks in the store
AdvFails == 1       \* cap on the failed executions
AdvReply == 2       \* cap on the length of one reply
AdvChallenges == 3  \* challenge texts the verifier draws from

InitAdv ==
    /\ \E n \in 1..AdvPlan : InitStore(n, FreshTasks(n), NoDeps(n))
    /\ caps = [tasks |-> AdvTasks, fails |-> AdvFails, reply |-> AdvReply,
               texts |-> "good", chal |-> AdvChallenges]
    /\ InitActors
    /\ NoEnv

SpecAdv == InitAdv /\ [][Next]_vars

\* ---- a new run whose workers get every kind of output ----

WorkPlan == 2       \* at most this many planned tasks
WorkTasks == 2      \* cap on the tasks in the store
WorkFails == 2      \* cap on the failed executions

InitWorker ==
    /\ \E n \in 1..WorkPlan : InitStore(n, FreshTasks(n), NoDeps(n))
    /\ caps = [tasks |-> WorkTasks, fails |-> WorkFails, reply |-> MaxReply,
               texts |-> "all", chal |-> MaxChallenges]
    /\ InitActors
    /\ NoEnv

SpecWorker == InitWorker /\ [][Next]_vars

\* ---- a new run whose plan pins tasks to workers ----

\* the worker attribute of a <task> element: absent ("auto") or any text,
\* here the id of a worker
PinnedTo == {"auto"} \cup {worker_id(w) : w \in Workers}

\* the tasks _parse_xml builds: worker = the attribute, or "auto"
PinnedTasks(n) ==
    [1..n -> {[Task("plan", {}, 0, PENDING) EXCEPT !.worker = a] :
                 a \in PinnedTo}]

InitPin ==
    /\ \E n \in 1..NPlan : InitStore(n, PinnedTasks(n), NoDeps(n))
    /\ caps = [tasks |-> NPlan, fails |-> 1, reply |-> MaxReply,
               texts |-> "good", chal |-> MaxChallenges]
    /\ InitActors
    /\ NoEnv

SpecPin == InitPin /\ [][Next]_vars

\* ---- Planner: the planner's output becomes tasks (planner.py 20-120) ----

PlanElems == 3      \* at most this many <task> elements in the output
PlanDeps == 2       \* at most this many entries in its depends attributes

ShortDesc == 5      \* a description of at most this length is discarded

\* no worker and no Judge exist: the engine is at startup, or a store
\* operation is looked at on its own
NoActors ==
    /\ wpc = [w \in Workers |-> "none"]
    /\ wtask = [w \in Workers |-> 0]
    /\ use_codex = FALSE
    /\ work_complete = FALSE
    /\ completed_queue = <<>>
    /\ refine_count = 0
    /\ replan_count = 0
    /\ adv_round = 0
    /\ adv_attempts = 0
    /\ adv_task_ids = {}
    /\ seen_challenges = {}
    /\ fails = 0
    /\ jhist = NoJHist
    /\ caps = [tasks |-> 0, fails |-> 0, reply |-> 0, texts |-> "good",
               chal |-> 0]

\* the entries of a depends attribute after split(",") and strip():
\* decimal numbers, a word, nothing, and "^2" for the superscript two
\* (U+00B2), a digit that is not a decimal
Digits == <<"0", "1", "2", "3", "4">>
Decimals == {Digits[k] : k \in 1..Len(Digits)}
DependsEntries == Decimals \cup {"abc", "", "^2"}

\* str.isdigit()
isdigit(p) == p \in Decimals \cup {"^2"}

\* int(p) of a decimal
int(p) == (CHOOSE k \in 1..Len(Digits) : Digits[k] = p) - 1

\* int(p) raises ValueError
IntRaises(p) == p \notin Decimals

\* the stripped text of a <task> element
Descs == {"tiny", "Setup project"}

\* the <task> elements of an output with n elements and at most k depends
\* entries in all
RECURSIVE PlannerOutputs(_, _)
PlannerOutputs(n, k) ==
    IF n = 0 THEN {<<>>}
    ELSE UNION {
           {<<[desc |-> d, worker |-> "auto", depends |-> dep]>> \o rest :
               d \in Descs, dep \in [1..j -> DependsEntries],
               rest \in PlannerOutputs(n - 1, k - j)} : j \in 0..k}

\* the positions of the elements the loop does not skip
\* (if not desc or len(desc) <= 5: continue)
RECURSIVE KeptFrom(_, _)
KeptFrom(elems, p) ==
    IF p > Len(elems) THEN <<>>
    ELSE (IF Len(elems[p].desc) <= ShortDesc THEN <<>> ELSE <<p>>)
         \o KeptFrom(elems, p + 1)

\* indices = [int(p.strip()) for p in depends_str.split(",")
\*            if p.strip().isdigit()]
indices(depends) ==
    LET digs == SelectSeq(depends, isdigit)
    IN [j \in 1..Len(digs) |-> int(digs[j])]

\* tasks[i].depends_on of the resolution loop: the ids (positions in the
\* task list) of the indices with 1 <= idx <= len(tasks) and idx - 1 != i
Resolved(i, idxs, n) ==
    LET InRange(idx) == 1 <= idx /\ idx <= n /\ idx # i
    IN SelectSeq(idxs, InRange)

\* Planner._parse_xml: the task list, with the position of the element each
\* task came from; raised when int() raised
parse_xml(elems) ==
    LET kept == KeptFrom(elems, 1)
        n == Len(kept)
    IN IF \E i \in 1..n : \E j \in 1..Len(elems[kept[i]].depends) :
             LET p == elems[kept[i]].depends[j]
             IN isdigit(p) /\ IntRaises(p)
       THEN [raised |-> TRUE, elem |-> <<>>, tasks |-> <<>>]
       ELSE [raised |-> FALSE, elem |-> kept,
             tasks |-> [i \in 1..n |->
                [description |-> elems[kept[i]].desc,
                 worker |-> elems[kept[i]].worker,
                 depends_on |->
                    Resolved(i, indices(elems[kept[i]].depends), n)]]]

\* the planner's LLM call has returned the output elems
InitPlan ==
    /\ \E n \in 0..PlanElems :
         \E elems \in PlannerOutputs(n, PlanDeps) :
            last = [op |-> "xml", elems |-> elems]
    /\ tasks = <<>>
    /\ queue = <<>>
    /\ hist = <<>>
    /\ jpc = "init"
    /\ NoActors
    /\ NoEnv

\* Planner.plan_once: parse the output and add_task each task; a ValueError
\* of int() is not caught (except RuntimeError) and ends the run
PlanOnce ==
    /\ last.op = "xml"
    /\ LET r == parse_xml(last.elems)
       IN /\ tasks' = [i \in 1..Len(r.tasks) |->
                         [Task(r.tasks[i].description,
                               SeqToSet(r.tasks[i].depends_on), 0, PENDING)
                            EXCEPT !.worker = r.tasks[i].worker]]
          /\ hist' = [i \in 1..Len(r.tasks) |-> NoHist]
          /\ last' = [op |-> IF r.raised THEN "ValueError" ELSE "planned",
                      elems |-> last.elems, elem |-> r.elem,
                      depends_on |->
                         [i \in 1..Len(r.tasks) |-> r.tasks[i].depends_on]]
    /\ UNCHANGED <<queue, wpc, wtask, work_complete, jpc, completed_queue,
                   judgeVars, use_codex, caps, envVars, fails>>

NextPlan == PlanOnce

SpecPlan == InitPlan /\ [][NextPlan]_vars

\* ---- Validator.validate (validator.py 30-97) ----

MaxGaps == 2        \* at most this many <gap> tags, and lines in <gaps>

max_retries == 2    \* validate(..., max_retries: int = 2)

NoExplanation == "rejected without explanation (LLM parse failure)"

\* texts of a <gap> tag or of a line of the <gaps> block, stripped
GapTexts == {"", "no tests", "no api"}

\* replies of the validator's LLM call: the text of <decision> ("" when the
\* tag is missing), the <gap> tags, the lines of the <gaps> block (absent:
\* no block)
ValidatorReplies ==
    {[decision |-> d, gap |-> g, gaps_block |-> b] :
        d \in {"accept", "reject", ""},
        g \in UNION {[1..n -> GapTexts] : n \in 0..MaxGaps},
        b \in {[present |-> FALSE, lines |-> <<>>]} \cup
              {[present |-> TRUE, lines |-> l] :
                  l \in UNION {[1..n -> {"", "no api"}] : n \in 0..MaxGaps}}}

NonEmpty(text) == text # ""

\* Validator._parse: accept, and the gaps: the non-empty <gap> texts; for
\* a reject without them the non-empty lines of the <gaps> block; without
\* those the fallback text
_parse(reply) ==
    LET accept == reply.decision = "accept"
        gaps == SelectSeq(reply.gap, NonEmpty)
        lines == IF reply.gaps_block.present
                 THEN SelectSeq(reply.gaps_block.lines, NonEmpty)
                 ELSE <<>>
    IN [accept |-> accept,
        gaps |-> IF ~accept /\ gaps = <<>>
                 THEN (IF lines # <<>> THEN lines ELSE <<NoExplanation>>)
                 ELSE gaps]

\* if not parsed.accept and not parsed.gaps: if attempt < max_retries:
\* continue
Retried(parsed, attempt) ==
    /\ ~parsed.accept
    /\ parsed.gaps = <<>>
    /\ attempt < max_retries

\* validate has been called
InitValidate ==
    /\ last = [op |-> "validate", attempt |-> 0]
    /\ tasks = <<>>
    /\ queue = <<>>
    /\ hist = <<>>
    /\ jpc = "init"
    /\ NoActors
    /\ NoEnv

\* one round of the loop of validate: the LLM call returned reply
ValidateCall(reply) ==
    /\ last.op \in {"validate", "retry"}
    /\ LET parsed == _parse(reply)
       IN last' = [op |-> IF Retried(parsed, last.attempt)
                          THEN "retry" ELSE "return",
                   attempt |-> IF Retried(parsed, last.attempt)
                               THEN last.attempt + 1 ELSE last.attempt,
                   reply |-> reply, parsed |-> parsed]
    /\ UNCHANGED <<tasks, queue, hist, wpc, wtask, work_complete, jpc,
                   completed_queue, judgeVars, use_codex, caps, envVars, fails>>

\* the LLM call raised: validate does not catch it
ValidateRaises ==
    /\ last.op \in {"validate", "retry"}
    /\ last' = [op |-> "raise", attempt |-> last.attempt]
    /\ UNCHANGED <<tasks, queue, hist, wpc, wtask, work_complete, jpc,
                   completed_queue, judgeVars, use_codex, caps, envVars, fails>>

NextValidate ==
    \/ \E reply \in ValidatorReplies : ValidateCall(reply)
    \/ ValidateRaises

SpecValidate == InitValidate /\ [][NextValidate]_vars

\* ---- ClaudeCodeClient.execute and _kill_proc (claude_code.py 78-270) ----

KillWait == 10      \* seconds _kill_proc waits after SIGTERM

\* proc.returncode is not None
Exited(p) == p.returncode # "None"

\* the wait of _kill_proc is over
WaitExpiredMut(p) == p.elapsed >= 0

WaitExpired(p) == p.elapsed = KillWait

\* execute has raised nothing; the cancellation it re-raises
NotRaised == [msg |-> "", partial |-> "", session_id |-> ""]
CancelledError == [msg |-> "cancelled", partial |-> "", session_id |-> ""]

\* the error execute raises when the call timed out
TimeoutError(p) ==
    [msg |-> "timeout", partial |-> p.result_text,
     session_id |-> p.session_id]

\* execute has started the subprocess in its own process group and reads
\* its output under asyncio.timeout
InitKill ==
    /\ proc = [pc |-> "reading", returncode |-> "None", result_text |-> "",
               session_id |-> "", why |-> "", signals |-> <<>>,
               elapsed |-> 0, raised |-> NotRaised, cancelled |-> FALSE]
    /\ tasks = <<>>
    /\ queue = <<>>
    /\ hist = <<>>
    /\ jpc = "init"
    /\ last = Step
    /\ disk = NoDisk
    /\ boot = NoBoot
    /\ has_work = TRUE
    /\ NoActors

KillFrame ==
    UNCHANGED <<tasks, queue, hist, wpc, wtask, work_complete, jpc,
                completed_queue, judgeVars, use_codex, caps, fails, last,
                disk, boot, has_work>>

\* a "result" event arrives on stdout
ProcResult ==
    /\ proc.pc = "reading"
    /\ proc.result_text = ""
    /\ proc' = [proc EXCEPT !.result_text = "out", !.session_id = "s1"]
    /\ KillFrame

\* the subprocess exits and asyncio sets returncode: on its own, or on the
\* SIGTERM it got
ProcExit ==
    /\ proc.pc \in {"reading", "waiting"}
    /\ ~Exited(proc)
    /\ \E rc \in {"0", "1"} : proc' = [proc EXCEPT !.returncode = rc]
    /\ KillFrame

\* the output is read and the process has exited: the checks after the
\* try block (claude_code.py 158-182)
ExecuteEnds ==
    /\ proc.pc = "reading"
    /\ Exited(proc)
    /\ proc' = [proc EXCEPT
          !.pc = "left",
          !.raised =
             IF proc.returncode # "0"
             THEN [msg |-> "failed", partial |-> proc.result_text,
                   session_id |-> proc.session_id]
             ELSE IF proc.result_text = ""
             THEN [msg |-> "empty", partial |-> "",
                   session_id |-> proc.session_id]
             ELSE NotRaised]
    /\ KillFrame

\* what execute raises after _kill_proc returned
Raised(p) == IF p.why = "timeout" THEN TimeoutError(p) ELSE CancelledError

\* _kill_proc up to its wait: return when returncode is set, else SIGTERM
\* to the process group (killpg raises OSError only for a process that is
\* gone, whose returncode is set here)
KillProc(p) ==
    IF Exited(p)
    THEN [p EXCEPT !.pc = "left", !.raised = Raised(p)]
    ELSE [p EXCEPT !.pc = "waiting", !.signals = Append(@, "SIGTERM")]

\* asyncio.timeout expires inside the try block: except TimeoutError
Timeout ==
    /\ proc.pc = "reading"
    /\ proc' = KillProc([proc EXCEPT !.why = "timeout"])
    /\ KillFrame

\* the task running execute is cancelled: inside the try block (except
\* CancelledError), or while _kill_proc waits, which ends _kill_proc and
\* execute with the cancellation
Cancel ==
    /\ proc.pc \in {"reading", "waiting"}
    /\ ~proc.cancelled
    /\ proc' = IF proc.pc = "reading"
               THEN KillProc([proc EXCEPT !.why = "cancel",
                                          !.cancelled = TRUE])
               ELSE [proc EXCEPT !.pc = "left", !.raised = CancelledError,
                                 !.cancelled = TRUE]
    /\ KillFrame

\* a second passes in asyncio.wait_for(proc.wait(), timeout=10)
KillTick ==
    /\ proc.pc = "waiting"
    /\ ~Exited(proc)
    /\ proc.elapsed < KillWait
    /\ proc' = [proc EXCEPT !.elapsed = @ + 1]
    /\ KillFrame

\* proc.wait() returns: _kill_proc returns without a second signal
KillWaitReturns ==
    /\ proc.pc = "waiting"
    /\ Exited(proc)
    /\ proc' = [proc EXCEPT !.pc = "left", !.raised = Raised(proc)]
    /\ KillFrame

\* wait_for times out: SIGKILL to the process group
KillWaitTimeout ==
    /\ proc.pc = "waiting"
    /\ ~Exited(proc)
    /\ WaitExpired(proc)
    /\ proc' = [proc EXCEPT !.pc = "left", !.raised = Raised(proc),
                            !.signals = Append(@, "SIGKILL")]
    /\ KillFrame

NextKill ==
    \/ ProcResult
    \/ ProcExit
    \/ ExecuteEnds
    \/ Timeout
    \/ Cancel
    \/ KillTick
    \/ KillWaitReturns
    \/ KillWaitTimeout

SpecKill == InitKill /\ [][NextKill]_vars

\* ---- _main: state detection and lock (__main__.py 225-372) ----

\* the spec text of the command line ("" when none is found)
SpecTexts == {"", "spec A", "spec B"}

\* hashlib.sha256(text.encode()).hexdigest()
_spec_hash(text) ==
    CASE text = "spec A" -> "3f1a"
      [] text = "spec B" -> "9c07"
      [] OTHER -> "e3b0"

\* the files of the data directory
NoTasksFile == [exists |-> FALSE, tasks |-> <<>>]
NoWorkFile == [exists |-> FALSE, is_complete |-> FALSE, spec_hash |-> ""]

\* the inode of a ship.lock file created now
NewInode == 2

\* stored task lists: of a run in progress, of a finished run
DiskTasks ==
    {<<Task("plan", {}, 0, st)>> : st \in {PENDING, COMPLETED}}

\* the data directories an engine can find at startup: none, an empty one,
\* one with any of the files; held is the inode another engine process has
\* locked (0: no other process), which is the ship.lock of the directory
Disks ==
    {[dir |-> FALSE, tasks_json |-> NoTasksFile, work_json |-> NoWorkFile,
      lock |-> 0, held |-> 0, corrupt |-> FALSE]} \cup
    {d \in [dir : {TRUE},
            tasks_json : {NoTasksFile} \cup
                [exists : {TRUE}, tasks : DiskTasks],
            work_json : {NoWorkFile} \cup
                [exists : {TRUE}, is_complete : BOOLEAN,
                 spec_hash : {"", _spec_hash("spec A")}],
            lock : {0, 1}, held : {0, 1}, corrupt : BOOLEAN] :
        /\ d.held \in {0, d.lock}
        /\ d.corrupt => d.tasks_json.exists /\ d.work_json.exists}

\* _has_real_state(data_dir)
_has_real_state(d) == d.work_json.exists /\ d.tasks_json.exists

\* shutil.rmtree(data_dir, ignore_errors=True): the lock file goes with the
\* directory, the lock another process holds on it stays
_wipe_state(d) ==
    [d EXCEPT !.dir = FALSE, !.tasks_json = NoTasksFile,
              !.work_json = NoWorkFile, !.lock = 0, !.corrupt = FALSE]

\* _new_hash
NewHash(text) == IF text # "" THEN _spec_hash(text) ELSE ""

\* _work and _work.is_complete and
\* (not _new_hash or _new_hash == _saved_hash)
AlreadyDoneMut(d, text) == FALSE

AlreadyDone(d, text) ==
    /\ ~d.corrupt
    /\ d.work_json.is_complete
    /\ NewHash(text) = "" \/ NewHash(text) = d.work_json.spec_hash

\* an engine process starts on a data directory
InitBoot ==
    /\ disk \in Disks
    /\ \E f \in BOOLEAN, c \in BOOLEAN, text \in SpecTexts :
         boot = [pc |-> "start", fresh |-> f, check |-> c, text |-> text,
                 _auto_cont |-> FALSE, _spec_changed |-> FALSE,
                 exit_code |-> -1, lock_fd |-> 0, disk0 |-> disk]
    /\ proc = NoProc
    /\ has_work = FALSE
    /\ tasks = <<>>
    /\ queue = <<>>
    /\ hist = <<>>
    /\ jpc = "init"
    /\ last = Step
    /\ NoActors

BootFrame ==
    UNCHANGED <<tasks, queue, hist, wpc, wtask, work_complete, jpc,
                completed_queue, judgeVars, use_codex, caps, fails, last,
                proc, has_work>>

\* sys.exit(code)
Exit(b, code) == [b EXCEPT !.pc = "exit", !.exit_code = code]

\* state detection: fresh / done / spec changed / continuation / stale
\* state (__main__.py 267-319)
BootDetect ==
    /\ boot.pc = "start"
    /\ IF boot.fresh
       THEN /\ disk' = IF disk.dir THEN _wipe_state(disk) ELSE disk
            /\ boot' = [boot EXCEPT !.pc = "lock"]
       ELSE IF boot.check
       THEN /\ disk' = disk
            /\ boot' = [boot EXCEPT !.pc = "lock"]
       ELSE IF _has_real_state(disk)
       THEN /\ disk' = disk
            /\ LET _new_hash == NewHash(boot.text)
                   _saved_hash == IF disk.corrupt THEN ""
                                  ELSE disk.work_json.spec_hash
               IN boot' =
                    IF AlreadyDone(disk, boot.text) THEN Exit(boot, 0)
                    ELSE IF /\ _new_hash # "" /\ _saved_hash # ""
                            /\ _new_hash # _saved_hash
                    THEN [boot EXCEPT !.pc = "lock", !._spec_changed = TRUE]
                    ELSE [boot EXCEPT !.pc = "lock", !._auto_cont = TRUE]
       ELSE /\ disk' = IF disk.dir THEN _wipe_state(disk) ELSE disk
            /\ boot' = [boot EXCEPT !.pc = "lock"]
    /\ BootFrame

\* StateManager(cfg.data_dir), then the exclusive non-blocking lock on
\* ship.lock (__main__.py 321-335): exit 1 when the state does not load or
\* another process holds the lock on this file
BootLock ==
    /\ boot.pc = "lock"
    /\ IF disk.corrupt
       THEN /\ boot' = Exit(boot, 1)
            /\ disk' = [disk EXCEPT !.dir = TRUE]
       ELSE LET ino == IF disk.lock # 0 THEN disk.lock ELSE NewInode
            IN /\ disk' = [disk EXCEPT !.dir = TRUE, !.lock = ino]
               /\ boot' = IF disk.held = ino
                          THEN Exit(boot, 1)
                          ELSE [boot EXCEPT !.pc = "locked", !.lock_fd = ino]
    /\ BootFrame

\* with the lock: a changed spec is kept or the state is wiped
\* (__main__.py 337-355); a continuation without work exits 1, one whose
\* work is complete exits 0 (__main__.py 357-372); else the run goes on
BootProceed ==
    /\ boot.pc = "locked"
    /\ \E decision \in {"keep", "replan"} :
         LET wipe == boot._spec_changed /\ decision = "replan"
             cont == IF boot._spec_changed THEN decision = "keep"
                     ELSE boot._auto_cont
         IN /\ disk' = IF wipe THEN [_wipe_state(disk) EXCEPT !.dir = TRUE]
                       ELSE disk
            /\ boot' =
                 IF cont /\ ~disk.work_json.exists
                 THEN Exit([boot EXCEPT !._auto_cont = cont], 1)
                 ELSE IF cont /\ disk.work_json.is_complete
                 THEN Exit([boot EXCEPT !._auto_cont = cont], 0)
                 ELSE [boot EXCEPT !._auto_cont = cont, !.pc = "run"]
    /\ BootFrame

NextBoot ==
    \/ BootDetect
    \/ BootLock
    \/ BootProceed

SpecBoot == InitBoot /\ [][NextBoot]_vars

\* ---- SIGINT / SIGTERM while the engine runs (__main__.py 549-566) ----

\* a worker or the Judge whose task was cancelled at position pos and has
\* not run since
Cancelling(pos) ==
    CASE pos = "idle" -> "cancel idle"
      [] pos = "exec" -> "cancel exec"
      [] pos = "post" -> "cancel post"
      [] OTHER -> "cancel"

IsCancelling(pos) ==
    pos \in {"cancel idle", "cancel exec", "cancel post", "cancel"}

\* the task a worker was executing when CancelledError went through
\* _execute: no except clause of _execute matches it
CancelledTaskMut(ts, id) ==
    update_task(ts, id, FAILED, LlmError, <<>>)

CancelledTask(ts, id) == ts

\* a new run, as InitWorker, with the engine process in view
InitInt ==
    /\ \E n \in 1..WorkPlan : InitStore(n, FreshTasks(n), NoDeps(n))
    /\ caps = [tasks |-> WorkTasks, fails |-> 1, reply |-> MaxReply,
               texts |-> "good", chal |-> MaxChallenges]
    /\ InitActors
    /\ proc = NoProc
    /\ disk = NoDisk
    /\ boot = [pc |-> "run", exit_code |-> -1, signalled |-> FALSE]
    /\ has_work = TRUE

\* the signal arrives.  With the handler installed it cancels the Judge's
\* and the workers' tasks (__main__.py 555-556); before that (no task is
\* created yet) it raises KeyboardInterrupt and run exits 130
\* (__main__.py 143-146, 172-175).  A signal after Judge.run returned
\* finds no Judge to cancel and is not looked at.
Interrupt ==
    /\ boot.pc = "run"
    /\ ~boot.signalled
    /\ jpc \notin {"done", "exited"}
    /\ IF jpc = "init"
       THEN /\ boot' = [Exit(boot, 130) EXCEPT !.signalled = TRUE]
            /\ jpc' = "interrupted"
            /\ wpc' = [w \in Workers |->
                         IF wpc[w] = "none" THEN "none" ELSE "stopped"]
       ELSE /\ boot' = [boot EXCEPT !.signalled = TRUE]
            /\ jpc' = "cancel"
            /\ wpc' = [w \in Workers |->
                         IF wpc[w] = "none" THEN "none"
                         ELSE Cancelling(wpc[w])]
    /\ UNCHANGED <<tasks, queue, hist, wtask, work_complete,
                   completed_queue, judgeVars, use_codex, caps, fails, last,
                   proc, disk, has_work>>

\* CancelledError in a worker: in queue.get, or inside _execute, where
\* the LLM client kills its subprocess and re-raises, and only the
\* finally clauses run (worker.py 46-58, 201-208)
WorkerCancelled(w) ==
    /\ IsCancelling(wpc[w])
    /\ tasks' = IF wpc[w] = "cancel exec"
                THEN CancelledTask(tasks, wtask[w]) ELSE tasks
    /\ wpc' = [wpc EXCEPT ![w] = "stopped"]
    /\ UNCHANGED <<queue, hist, wtask, work_complete, jpc, completed_queue,
                   judgeVars, use_codex, caps, fails, last, envVars>>

\* CancelledError in Judge.run: logged and re-raised (judge.py 365-367)
JudgeCancelled ==
    /\ jpc = "cancel"
    /\ jpc' = "cancelled"
    /\ UNCHANGED <<tasks, queue, hist, wpc, wtask, work_complete,
                   completed_queue, judgeVars, use_codex, caps, fails, last,
                   envVars>>

\* await judge_task raised CancelledError: _main cancels the workers
\* again, gathers them and exits 130 (__main__.py 558-565)
MainInterrupted ==
    /\ jpc = "cancelled"
    /\ \A w \in Workers : wpc[w] \in {"none", "stopped"}
    /\ jpc' = "interrupted"
    /\ boot' = Exit(boot, 130)
    /\ UNCHANGED <<tasks, queue, hist, wpc, wtask, work_complete,
                   completed_queue, judgeVars, use_codex, caps, fails, last,
                   proc, disk, has_work>>

NextInt ==
    \/ Next
    \/ Interrupt
    \/ \E w \in Workers : WorkerCancelled(w)
    \/ JudgeCancelled
    \/ MainInterrupted

SpecInt == InitInt /\ [][NextInt]_vars

\* ---- StateManager.is_complete on any store ----

NDone == 2          \* at most this many tasks in the store

\* a store as _load or the mutators leave it: tasks in any status, the work
\* state absent, present, or present and complete
InitComplete ==
    /\ \E n \in 0..NDone : \E st \in [1..n -> TaskStatus] :
         tasks = [i \in 1..n |-> Task("plan", {}, 0, st[i])]
    /\ hist = [i \in Ids(tasks) |-> NoHist]
    /\ has_work \in BOOLEAN
    /\ work_complete \in {FALSE, has_work}
    /\ queue = <<>>
    /\ jpc = "init"
    /\ last = Step
    /\ proc = NoProc
    /\ disk = NoDisk
    /\ boot = NoBoot
    /\ wpc = [w \in Workers |-> "none"]
    /\ wtask = [w \in Workers |-> 0]
    /\ use_codex = FALSE
    /\ completed_queue = <<>>
    /\ refine_count = 0
    /\ replan_count = 0
    /\ adv_round = 0
    /\ adv_attempts = 0
    /\ adv_task_ids = {}
    /\ seen_challenges = {}
    /\ fails = 0
    /\ jhist = NoJHist
    /\ caps = [tasks |-> NDone, fails |-> 0, reply |-> 0, texts |-> "good",
               chal |-> 0]

\* await state.is_complete()
CallIsComplete ==
    /\ last = Step
    /\ last' = [op |-> "is_complete",
                result |-> is_complete(tasks, has_work, work_complete)]
    /\ UNCHANGED <<tasks, queue, hist, wpc, wtask, work_complete, jpc,
                   completed_queue, judgeVars, use_codex, caps, envVars,
                   fails>>

NextComplete == CallIsComplete

SpecComplete == InitComplete /\ [][NextComplete]_vars

\* ---- a new run under fair scheduling ----

LivePlan == 2       \* at most this many planned tasks
LiveTasks == 2      \* cap on the tasks in the store
LiveFails == 11     \* cap on the failed executions: MAX_RETRIES + 1
LiveWorkers == 1    \* at most this many workers

InitLive ==
    /\ \E n \in 1..LivePlan : InitStore(n, FreshTasks(n), NoDeps(n))
    /\ caps = [tasks |-> LiveTasks, fails |-> LiveFails, reply |-> MaxReply,
               texts |-> "good", chal |-> MaxChallenges]
    /\ InitActors
    /\ NoEnv
    /\ Cardinality({w \in Workers : wpc[w] = "idle"}) <= LiveWorkers

\* the event loop runs every task that is ready, and every LLM call returns
\* or raises within its timeout
Fairness ==
    /\ WF_vars(StartActors)
    /\ \A w \in Workers :
         WF_vars(WorkerStart(w)) /\ WF_vars(WorkerFinish(w))
            /\ WF_vars(WorkerNext(w))
    /\ WF_vars(JudgeWakeVerify)
    /\ WF_vars(JudgeVerdict)
    /\ WF_vars(JudgeTickAfterSleep)
    /\ WF_vars(JudgeTickAfterVerdict)
    /\ WF_vars(JudgeRefineReturn)
    /\ WF_vars(JudgeReplanReturn)
    /\ WF_vars(JudgeVerifierReturn)
    /\ WF_vars(MainExit)

SpecLive == InitLive /\ [][Next]_vars /\ Fairness

\* ---- cascade_failure on its own ----

NCasc == 3          \* tasks in the store of SpecCascade

\* a task of the store in status st: a failed one carries a worker's error
CascTask(deps, st) ==
    [Task("plan", deps, 0, st) EXCEPT
        !.error = IF st = FAILED THEN PartialError ELSE NoError,
        !.started_at = st # PENDING,
        !.completed_at = st \in {COMPLETED, FAILED}]

InitCascade ==
    /\ \E g \in DepGraphs(NCasc) : \E st \in [1..NCasc -> TaskStatus] :
         tasks = [i \in 1..NCasc |-> CascTask(g[i], st[i])]
    /\ hist = [i \in 1..NCasc |-> NoHist]
    /\ queue = <<>>
    /\ wpc = [w \in Workers |-> "none"]
    /\ wtask = [w \in Workers |-> 0]
    /\ use_codex = FALSE
    /\ caps = [tasks |-> NCasc, fails |-> 0, reply |-> 0, texts |-> "good",
               chal |-> 0]
    /\ work_complete = FALSE
    /\ jpc = "sleep"
    /\ completed_queue = <<>>
    /\ refine_count = 0
    /\ replan_count = 0
    /\ adv_round = 0
    /\ adv_attempts = 0
    /\ adv_task_ids = {}
    /\ seen_challenges = {}
    /\ fails = 0
    /\ jhist = NoJHist
    /\ last = Step
    /\ NoEnv

\* cascaded = await self.state.cascade_failure(task.id), for a task of the
\* retryable list (judge.py 248-258): the task is failed
CallCascade(id) ==
    /\ tasks[id].status = FAILED
    /\ LET c == cascade_failure(tasks, id) IN
       /\ tasks' = c.tasks
       /\ hist' = MarkCascaded(hist, <<c.cascaded>>)
       /\ last' = [op |-> "cascade", id |-> id, before |-> tasks,
                   ret |-> c.cascaded]
    /\ UNCHANGED <<work_complete, queue, wpc, wtask, jpc, completed_queue,
                   judgeVars, use_codex, caps, envVars, fails>>

NextCascade == \E id \in Ids(tasks) : CallCascade(id)

SpecCascade == InitCascade /\ [][NextCascade]_vars

\* ---- reset_interrupted_tasks on its own ----

NReset == 2         \* tasks in the store of SpecReset

\* the tasks a state file of an interrupted run can hold: a pending task has
\* no error and no timestamps (retry_task cleared them), a running one was
\* started, a terminal one has completed_at; a cascade: error stays on a
\* task that a worker started or completed afterwards
StoredTasks ==
    {[Task("plan", {}, r, st) EXCEPT
         !.error = e, !.started_at = sa, !.completed_at = ca] :
        r \in {0, 3, MAX_RETRIES}, st \in TaskStatus,
        e \in {NoError, PartialError, CascadeError(1)},
        sa \in BOOLEAN, ca \in BOOLEAN}

IsStored(t) ==
    CASE t.status = PENDING ->
            t.error = NoError /\ ~t.started_at /\ ~t.completed_at
      [] t.status = RUNNING ->
            /\ t.started_at
            /\ t.error # PartialError
            /\ t.completed_at = is_cascade_error(t.error)
      [] t.status = COMPLETED ->
            t.started_at /\ t.completed_at /\ t.error # PartialError
      [] OTHER ->
            /\ t.completed_at
            /\ t.error # NoError
            /\ ~is_cascade_error(t.error) => t.started_at

InitReset ==
    /\ tasks \in [1..NReset -> {t \in StoredTasks : IsStored(t)}]
    /\ hist = [i \in 1..NReset |-> NoHist]
    /\ queue = <<>>
    /\ wpc = [w \in Workers |-> "none"]
    /\ wtask = [w \in Workers |-> 0]
    /\ use_codex = FALSE
    /\ caps = [tasks |-> NReset, fails |-> 0, reply |-> 0, texts |-> "good",
               chal |-> 0]
    /\ work_complete = FALSE
    /\ jpc = "init"
    /\ completed_queue = <<>>
    /\ refine_count = 0
    /\ replan_count = 0
    /\ adv_round = 0
    /\ adv_attempts = 0
    /\ adv_task_ids = {}
    /\ seen_challenges = {}
    /\ fails = 0
    /\ jhist = NoJHist
    /\ last = Step
    /\ NoEnv

\* await state.reset_interrupted_tasks() of the continuation path
\* (__main__.py 357-371)
CallReset ==
    /\ tasks' = reset_interrupted_tasks(tasks)
    /\ last' = [op |-> "reset", before |-> tasks]
    /\ UNCHANGED <<work_complete, queue, wpc, wtask, jpc, completed_queue,
                   judgeVars, use_codex, caps, envVars, fails, hist>>

NextReset == CallReset

SpecReset == InitReset /\ [][NextReset]_vars

\* ---- the continuation of an interrupted run (__main__.py 357-371) ----

ContPlan == 2       \* tasks in the store of the interrupted run
ContTasks == 2      \* cap on the tasks in the store
ContFails == 1      \* cap on the failed executions

get_pending_tasksMut(ts) ==
    SelectSeq([i \in 1..Len(ts) |-> i],
              LAMBDA i : ts[i].status \in {PENDING, COMPLETED})

\* StateManager.get_pending_tasks, as ids in the order of the store
get_pending_tasks(ts) ==
    SelectSeq([i \in 1..Len(ts) |-> i], LAMBDA i : ts[i].status = PENDING)

\* the stores an interrupted run can leave: tasks of any status, with
\* dependencies
SavedStores(n) ==
    {ts \in [1..n -> {t \in StoredTasks : IsStored(t)}] :
        \A i \in 1..n : ts[i].retries \in InitRetries}

\* the dependency graphs of the saved plan: here a task depends on earlier
\* tasks only
ContGraphs(n) ==
    {g \in PlanGraphs(n) : \A i \in 1..n : g[i] \subseteq 1..(i - 1)}

\* the state when _main has found the work state of an interrupted run,
\* called reset_interrupted_tasks, seeded the queue with the pending tasks
\* (__main__.py 485-489) and created workers and Judge
InitCont ==
    /\ \E n \in 1..ContPlan :
         \E saved \in SavedStores(n) :
           \E g \in ContGraphs(n) :
              /\ tasks = reset_interrupted_tasks(
                            [i \in 1..n |->
                                [saved[i] EXCEPT !.depends_on = g[i]]])
              /\ queue = get_pending_tasks(tasks)
              /\ hist = [i \in 1..n |->
                            [NoHist EXCEPT !.prior_completed =
                                (saved[i].status = COMPLETED)]]
    /\ caps = [tasks |-> ContTasks, fails |-> ContFails, reply |-> MaxReply,
               texts |-> "good", chal |-> MaxChallenges]
    /\ InitActors
    /\ NoEnv

SpecCont == InitCont /\ [][Next]_vars

\* ---- a new run with dependencies under fair scheduling ----

StrandPlan == 3     \* at most this many planned tasks
StrandTasks == 3    \* cap on the tasks in the store
StrandFails == 1    \* cap on the failed executions

\* the dependency graphs of the plan: here a task depends on the first
\* task or on none
StrandGraphs(n) ==
    {g \in PlanGraphs(n) : \A i \in 1..n : g[i] \subseteq {1} \ {i}}

InitStrand ==
    /\ \E n \in 1..StrandPlan : InitStore(n, InitTasks(n), StrandGraphs(n))
    /\ caps = [tasks |-> StrandTasks, fails |-> StrandFails,
               reply |-> MaxReply, texts |-> "good", chal |-> MaxChallenges]
    /\ InitActors
    /\ NoEnv
    /\ Cardinality({w \in Workers : wpc[w] = "idle"}) <= LiveWorkers

SpecStrand == InitStrand /\ [][Next]_vars /\ Fairness

\* ---- the State Store and its files: tasks.json, work.json ----

NStore == 2
StoreRetries == 1
StoreOps == 4

\* the summary field of a task: update_task assigns it (state.py 151-152)
\* and _load defaults it (state.py 55-56)
TaskWithSummary(t) == t @@ [summary |-> ""]

\* the summary entry of Task.to_dict
summary_entry(t) == [summary |-> t.summary]

\* datetime.isoformat / datetime.fromisoformat; a timestamp of the store is
\* a datetime (TRUE) or None (FALSE)
isoformat(dt) == IF dt THEN "2026-01-01T00:00:00.000001" ELSE "None"
fromisoformat(s) == s # "None"

\* TaskStatus.value and TaskStatus(value)
status_value(status) == status
TaskStatusOf(value) == CHOOSE s \in TaskStatus : s = value

to_dictMut(t, id) ==
    LET d == [id |-> id, description |-> t.description,
              status |-> status_value(t.status), retries |-> t.retries,
              error |-> t.error, depends_on |-> t.depends_on,
              followups |-> t.followups, worker |-> t.worker]
             @@ summary_entry(t)
    IN  IF t.started_at
        THEN d @@ [started_at |-> isoformat(t.started_at)] ELSE d

\* Task.to_dict: started_at and completed_at are written only when set
to_dict(t, id) ==
    LET d == [id |-> id, description |-> t.description,
              status |-> status_value(t.status), retries |-> t.retries,
              error |-> t.error, depends_on |-> t.depends_on,
              followups |-> t.followups, worker |-> t.worker]
             @@ summary_entry(t)
        s == IF t.started_at
             THEN d @@ [started_at |-> isoformat(t.started_at)] ELSE d
    IN  IF t.completed_at
        THEN s @@ [completed_at |-> isoformat(t.completed_at)] ELSE s

\* the value of key k of a JSON object, or the default of a missing key
Get(d, k, default) == IF k \in DOMAIN d THEN d[k] ELSE default

\* the body of the loop of _load: Task(**task_data) after the defaults and
\* the conversions of the timestamps, then TaskStatus(task_data["status"])
from_dict(d) ==
    [description |-> d.description,
     status |-> TaskStatusOf(d.status),
     retries |-> Get(d, "retries", 0),
     error |-> Get(d, "error", NoError),
     depends_on |-> Get(d, "depends_on", {}),
     followups |-> Get(d, "followups", <<>>),
     started_at |-> IF "started_at" \in DOMAIN d
                    THEN fromisoformat(d.started_at) ELSE FALSE,
     completed_at |-> IF "completed_at" \in DOMAIN d
                      THEN fromisoformat(d.completed_at) ELSE FALSE,
     worker |-> Get(d, "worker", "auto"),
     summary |-> Get(d, "summary", "")]

NoFile == [exists |-> FALSE, data |-> <<>>]

\* StateManager._save_tasks: json.dump([t.to_dict() for t in tasks.values()])
_save_tasks(ts) ==
    [exists |-> TRUE, data |-> [i \in 1..Len(ts) |-> to_dict(ts[i], i)]]

\* WorkState.to_dict
work_to_dict(wc) ==
    [design_file |-> "SPEC.md", goal_text |-> "spec A", is_complete |-> wc,
     project_context |-> "", execution_mode |-> "parallel",
     started_at |-> isoformat(TRUE), last_updated_at |-> isoformat(TRUE)]

\* StateManager._save_work: nothing is written without a work state
_save_work(file, hw, wc) ==
    IF hw THEN [exists |-> TRUE, data |-> work_to_dict(wc)] ELSE file

\* StateManager._load, tasks: the file is read when it exists and is not
\* empty
_load_tasks(file) ==
    IF file.exists
    THEN [i \in 1..Len(file.data) |-> from_dict(file.data[i])]
    ELSE <<>>

\* StateManager._load, work state: [has_work, is_complete]
_load_work(file) ==
    IF file.exists
    THEN [has_work |-> TRUE, is_complete |-> file.data.is_complete]
    ELSE [has_work |-> FALSE, is_complete |-> FALSE]

\* a tasks.json of an earlier version, without the later keys
LegacyTasksFile ==
    [exists |-> TRUE,
     data |-> <<[id |-> 1, description |-> "plan", status |-> "failed",
                 error |-> LlmError, result |-> "",
                 started_at |-> isoformat(TRUE),
                 completed_at |-> isoformat(TRUE)]>>]

\* task lists a run can have stored: the second task depends on the first
StoreTaskLists ==
    UNION {{[i \in 1..n |->
                TaskWithSummary(Task("plan", IF i = 1 THEN {} ELSE {1}, 0,
                                     st[i]))] :
            st \in [1..n -> TaskStatus]} : n \in 0..NStore}

\* the data directories a StateManager is constructed on
StoreDisks ==
    [dir : {TRUE},
     tasks_json : {NoFile, LegacyTasksFile}
                    \cup {_save_tasks(ts) : ts \in StoreTaskLists},
     work_json : {NoFile} \cup {_save_work(NoFile, TRUE, wc) : wc \in BOOLEAN}]

\* StateManager(data_dir): the state after _load
InitStoreFiles ==
    /\ disk \in StoreDisks
    /\ tasks = _load_tasks(disk.tasks_json)
    /\ has_work = _load_work(disk.work_json).has_work
    /\ work_complete = _load_work(disk.work_json).is_complete
    /\ hist = <<>>
    /\ queue = <<>>
    /\ jpc = "init"
    /\ last = [op |-> "load", n |-> 0]
    /\ proc = NoProc
    /\ boot = NoBoot
    /\ wpc = [w \in Workers |-> "none"]
    /\ wtask = [w \in Workers |-> 0]
    /\ use_codex = FALSE
    /\ completed_queue = <<>>
    /\ refine_count = 0
    /\ replan_count = 0
    /\ adv_round = 0
    /\ adv_attempts = 0
    /\ adv_task_ids = {}
    /\ seen_challenges = {}
    /\ fails = 0
    /\ jhist = NoJHist
    /\ caps = [tasks |-> NStore, fails |-> 0, reply |-> 0, texts |-> "good",
               chal |-> 0]

\* a mutation of the store is over: its name and how many there were, of
\* the StoreOps of a run
Mutated(op) ==
    /\ last.n < StoreOps
    /\ last' = [op |-> op, n |-> last.n + 1]

StoreFrame ==
    UNCHANGED <<queue, hist, wpc, wtask, jpc, completed_queue, judgeVars,
                use_codex, caps, proc, boot, fails>>

\* if summary: task.summary = summary
set_summary(ts, id, summary) ==
    IF id \in Ids(ts) /\ summary # ""
    THEN [ts EXCEPT ![id].summary = summary] ELSE ts

\* await state.init_work(...)
StoreInitWork ==
    /\ has_work' = TRUE
    /\ work_complete' = FALSE
    /\ disk' = [disk EXCEPT !.work_json = _save_work(@, TRUE, FALSE)]
    /\ Mutated("init_work")
    /\ UNCHANGED tasks
    /\ StoreFrame

\* await state.add_task(task): a task whose id is taken is not added and
\* nothing is written
StoreAddTask(id, deps) ==
    /\ Len(tasks) < NStore \/ id \in Ids(tasks)
    /\ tasks' = IF id \in Ids(tasks) THEN tasks
                ELSE Append(tasks, TaskWithSummary(Task("plan", deps, 0,
                                                        PENDING)))
    /\ disk' = IF id \in Ids(tasks) THEN disk
               ELSE [disk EXCEPT !.tasks_json = _save_tasks(tasks')]
    /\ Mutated("add_task")
    /\ UNCHANGED <<has_work, work_complete>>
    /\ StoreFrame

\* await state.update_task(task_id, status, error, summary, followups): an
\* unknown id returns before anything is changed or written
StoreUpdateTask(id, u) ==
    /\ tasks' = set_summary(update_task(tasks, id, u.status, u.error,
                                        u.followups),
                            id, u.summary)
    /\ disk' = IF id \in Ids(tasks)
               THEN [disk EXCEPT !.tasks_json = _save_tasks(tasks')]
               ELSE disk
    /\ Mutated("update_task")
    /\ UNCHANGED <<has_work, work_complete>>
    /\ StoreFrame

\* await state.retry_task(task_id)
StoreRetryTask(id) ==
    /\ id \in Ids(tasks) => tasks[id].retries < StoreRetries
    /\ tasks' = retry_task(tasks, id)
    /\ disk' = IF id \in Ids(tasks)
               THEN [disk EXCEPT !.tasks_json = _save_tasks(tasks')]
               ELSE disk
    /\ Mutated("retry_task")
    /\ UNCHANGED <<has_work, work_complete>>
    /\ StoreFrame

\* whether cascade_failure writes tasks.json: if cascaded
CascadeSaves(cascaded) == cascaded # <<>>

\* await state.cascade_failure(task_id)
StoreCascadeFailure(id) ==
    /\ LET c == cascade_failure(tasks, id) IN
       /\ tasks' = c.tasks
       /\ disk' = IF CascadeSaves(c.cascaded)
                  THEN [disk EXCEPT !.tasks_json = _save_tasks(tasks')]
                  ELSE disk
    /\ Mutated("cascade_failure")
    /\ UNCHANGED <<has_work, work_complete>>
    /\ StoreFrame

\* await state.reset_interrupted_tasks()
StoreResetInterrupted ==
    /\ tasks' = reset_interrupted_tasks(tasks)
    /\ disk' = [disk EXCEPT !.tasks_json = _save_tasks(tasks')]
    /\ Mutated("reset_interrupted_tasks")
    /\ UNCHANGED <<has_work, work_complete>>
    /\ StoreFrame

\* await state.mark_complete(): without a work state nothing happens
StoreMarkComplete ==
    /\ work_complete' = (has_work \/ work_complete)
    /\ disk' = [disk EXCEPT !.work_json = _save_work(@, has_work, TRUE)]
    /\ Mutated("mark_complete")
    /\ UNCHANGED <<tasks, has_work>>
    /\ StoreFrame

\* the calls of update_task a worker makes: running; partial, with
\* followups; completed, with or without a summary; failed
StoreUpdates ==
    {[status |-> RUNNING, error |-> NoError, followups |-> <<>>,
      summary |-> ""],
     [status |-> FAILED, error |-> PartialError,
      followups |-> <<"finish API">>, summary |-> ""],
     [status |-> COMPLETED, error |-> NoError, followups |-> <<>>,
      summary |-> "added tests"],
     [status |-> COMPLETED, error |-> NoError, followups |-> <<>>,
      summary |-> ""],
     [status |-> FAILED, error |-> LlmError, followups |-> <<>>,
      summary |-> ""]}

NextStore ==
    \/ StoreInitWork
    \/ \E id \in 1..(Len(tasks) + 1) :
       \E deps \in {{}, {1} \cap Ids(tasks)} :
          StoreAddTask(id, deps)
    \/ \E id \in 1..(Len(tasks) + 1) : \E u \in StoreUpdates :
          StoreUpdateTask(id, u)
    \/ \E id \in 1..(Len(tasks) + 1) : StoreRetryTask(id)
    \/ \E id \in 1..(Len(tasks) + 1) : StoreCascadeFailure(id)
    \/ StoreResetInterrupted
    \/ StoreMarkComplete

SpecStore == InitStoreFiles /\ [][NextStore]_vars

\* ---- properties ----

Active(t) == t.status \in {PENDING, RUNNING}

RECURSIVE Closure(_, _, _)
\* the tasks that reach a task of S over depends_on edges through tasks of
\* the set via (S included)
Closure(ts, S, via) ==
    LET more == {i \in Ids(ts) \ S : i \in via /\ ts[i].depends_on \cap S # {}}
    IN IF more = {} THEN S ELSE Closure(ts, S \cup more, via)

\* the transitive dependents of id
Dependents(ts, id) == Closure(ts, {id}, Ids(ts)) \ {id}

\* the dependents of id over chains of pending or running tasks
ActiveDependents(ts, id) ==
    Closure(ts, {id}, {i \in Ids(ts) : Active(ts[i])}) \ {id}

RECURSIVE Level(_, _, _, _, _)
\* the length of the shortest chain of pending or running tasks from t to a
\* task of frontier, plus k
Level(ts, t, frontier, seen, k) ==
    IF t \in frontier THEN k
    ELSE LET nxt == {i \in Ids(ts) \ seen :
                        Active(ts[i]) /\ ts[i].depends_on \cap frontier # {}}
         IN IF nxt = {} THEN 0 - 1
            ELSE Level(ts, t, nxt, seen \cup nxt, k + 1)

Count(s, x) == Cardinality({k \in 1..Len(s) : s[k] = x})

\* C1: a running task has every task of its depends_on completed
C1_RunningAfterDeps ==
    \A i \in Ids(tasks) :
        tasks[i].status = RUNNING =>
            \A d \in tasks[i].depends_on :
                d \in Ids(tasks) /\ tasks[d].status = COMPLETED

\* C2: a completed task keeps status completed in every later step
C2_CompletedIsFinal ==
    [][\A i \in Ids(tasks) :
          tasks[i].status = COMPLETED => tasks'[i].status = COMPLETED]_vars

\* a Judge tick called cascade_failure for a task that a completed task
\* depends on
C2_Witness ==
    /\ last.op = "tick"
    /\ \E i \in Ids(tasks) :
         /\ tasks[i].status = COMPLETED
         /\ tasks[i].depends_on \cap SeqToSet(last.casc) # {}

AllowedEdges ==
    {<<PENDING, RUNNING>>, <<RUNNING, COMPLETED>>, <<RUNNING, FAILED>>,
     <<FAILED, PENDING>>, <<PENDING, FAILED>>}

\* C3: a task's status changes only along pending-running, running-completed,
\* running-failed, failed-pending and pending-failed
C3_StatusEdges ==
    [][\A i \in Ids(tasks) :
          \/ tasks'[i].status = tasks[i].status
          \/ <<tasks[i].status, tasks'[i].status>> \in AllowedEdges]_vars

\* C4: no task has more than MAX_RETRIES retries
C4_RetriesBounded ==
    \A i \in Ids(tasks) : tasks[i].retries <= MAX_RETRIES

\* a task with MAX_RETRIES retries failed again and the tick called
\* cascade_failure for it instead of retry_task, while it retried another
C4_Witness ==
    /\ last.op = "tick"
    /\ \E i \in Ids(tasks) :
         /\ tasks[i].retries = MAX_RETRIES
         /\ tasks[i].status = FAILED
         /\ i \in SeqToSet(last.casc)
    /\ \E i \in Ids(tasks) : i \in SeqToSet(last.retried)

\* C5: once mark_complete has set work.is_complete no task is pending or
\* running
C5_CompleteMeansDrained ==
    work_complete => \A i \in Ids(tasks) : ~Active(tasks[i])

C7_CascadeFrame ==
    last.op = "cascade" =>
        /\ \A i \in Ids(tasks) :
              ~Active(last.before[i]) => tasks[i] = last.before[i]
        /\ tasks[last.id] = last.before[last.id]
        /\ Len(tasks) = Len(last.before)
        /\ SeqToSet(last.ret) =
              {i \in Ids(tasks) : tasks[i].status # last.before[i].status}
        /\ \A i \in Ids(tasks) : Count(last.ret, i) <= 1
        /\ \A a, b \in 1..Len(last.ret) :
              a < b =>
                 Level(last.before, last.ret[a], {last.id}, {last.id}, 0)
                   <= Level(last.before, last.ret[b], {last.id}, {last.id}, 0)

\* C depends on B depends on A: cascade_failure(A) returned [B, C]
C7_Witness ==
    /\ last.op = "cascade"
    /\ Len(last.ret) = 2
    /\ last.before[last.ret[1]].depends_on = {last.id}
    /\ last.before[last.ret[2]].depends_on = {last.ret[1]}

\* C8: a task's error begins with cascade: exactly when cascade_failure set
\* it failed and no worker outcome was recorded since, and retry_task is
\* never called for a task whose error begins with cascade:
C8_CascadeErrorIffCascaded ==
    /\ [](\A i \in Ids(tasks) :
             is_cascade_error(tasks[i].error) <=> hist[i].by_cascade)
    /\ [][last'.op = "tick" =>
             \A k \in 1..Len(last'.retried) :
                 ~is_cascade_error(tasks[last'.retried[k]].error)]_vars

\* C9: a task that cascade_failure has set failed is never marked running
\* afterwards
C9_CascadedNeverStarts ==
    [][\A i \in Ids(tasks) :
          (hist[i].ever_cascaded /\ tasks[i].status # RUNNING)
              => tasks'[i].status # RUNNING]_vars

\* the tasks a tick has to retry or cascade
Handled(i) ==
    /\ tasks[i].status = FAILED
    /\ ~is_cascade_error(tasks[i].error)
    /\ i \notin adv_task_ids

\* C10: a Judge tick retries and enqueues once every failed task without
\* cascade: error that is not an outstanding adversarial task and has
\* retries < MAX_RETRIES, calls cascade_failure for those with more
\* retries without enqueuing them, and does neither for any other task
C10_TickHandling ==
    [][last'.op = "tick" =>
         \A i \in Ids(tasks) :
            /\ (Handled(i) /\ tasks[i].retries < MAX_RETRIES) =>
                  /\ Count(last'.retried, i) = 1
                  /\ Count(last'.casc, i) = 0
                  /\ tasks'[i].retries = tasks[i].retries + 1
                  /\ Count(queue', i) = Count(queue, i) + 1
            /\ (Handled(i) /\ tasks[i].retries >= MAX_RETRIES) =>
                  /\ Count(last'.retried, i) = 0
                  /\ Count(last'.casc, i) = 1
                  /\ tasks'[i].status = FAILED
                  /\ Count(queue', i) = Count(queue, i)
            /\ ~Handled(i) =>
                  /\ Count(last'.retried, i) = 0
                  /\ Count(last'.casc, i) = 0
                  /\ tasks'[i].retries = tasks[i].retries
                  /\ Count(queue', i) = Count(queue, i)]_vars

\* one tick retried a task and called cascade_failure for another
C10_Witness ==
    /\ last.op = "tick"
    /\ last.retried # <<>>
    /\ last.casc # <<>>

\* C12: reset_interrupted_tasks makes every running or failed task pending
\* with retries 0, no error and no timestamps, leaves completed and pending
\* tasks as they were, and a second application changes nothing
C12_ResetInterrupted ==
    last.op = "reset" =>
        /\ Len(tasks) = Len(last.before)
        /\ \A i \in Ids(tasks) :
              IF last.before[i].status \in {RUNNING, FAILED}
              THEN /\ tasks[i].status = PENDING
                   /\ tasks[i].retries = 0
                   /\ tasks[i].error = NoError
                   /\ ~tasks[i].started_at
                   /\ ~tasks[i].completed_at
                   /\ tasks[i].description = last.before[i].description
                   /\ tasks[i].depends_on = last.before[i].depends_on
              ELSE tasks[i] = last.before[i]
        /\ reset_interrupted_tasks(tasks) = tasks

\* the reset met a cascade-failed task with MAX_RETRIES retries next to a
\* completed task with retries
C12_Witness ==
    /\ last.op = "reset"
    /\ \E i, j \in Ids(tasks) :
         /\ last.before[i].status = FAILED
         /\ is_cascade_error(last.before[i].error)
         /\ last.before[i].retries = MAX_RETRIES
         /\ last.before[j].status = COMPLETED
         /\ last.before[j].retries = 3

\* the pass that is being taken gives task i up: no retry, one call of
\* cascade_failure that returns an empty list, the task stays failed, and
\* with no adversarial batch outstanding the pass ends as the completion
\* check says
GivesUp(i) ==
    /\ Count(last'.retried, i) = 0
    /\ Count(last'.casc, i) = 1
    /\ \A k \in 1..Len(last'.casc) : last'.casc[k] = i => last'.rets[k] = <<>>
    /\ tasks'[i].status = FAILED
    /\ tasks'[i].retries = tasks[i].retries
    /\ adv_task_ids = {} =>
          (jpc' = "sleep") = ~is_complete(tasks', has_work, work_complete)

\* C11: a task that has failed 10 consecutive executions and has no
\* dependents is not retried on the next tick: cascade_failure is called and
\* returns an empty list, the task stays failed and the Judge goes on to the
\* completion check
C11_TenFailures ==
    [][last'.op = "tick" =>
         \A i \in Ids(tasks) :
            (hist[i].streak = MAX_RETRIES /\ Handled(i)
               /\ Dependents(tasks, i) = {}) => GivesUp(i)]_vars

\* C11 as amended: the same after 11 consecutive failed executions, the
\* first one and MAX_RETRIES retries
C11_ElevenFailures ==
    [][last'.op = "tick" =>
         \A i \in Ids(tasks) :
            (hist[i].streak = MAX_RETRIES + 1 /\ Handled(i)
               /\ Dependents(tasks, i) = {}) => GivesUp(i)]_vars

\* a tick called cascade_failure for a task without dependents that has
\* failed 11 times in a row, and got an empty list
C11_Witness ==
    /\ last.op = "tick"
    /\ \E k \in 1..Len(last.casc) :
         /\ hist[last.casc[k]].streak = MAX_RETRIES + 1
         /\ tasks[last.casc[k]].status = FAILED
         /\ Dependents(tasks, last.casc[k]) = {}
         /\ last.rets[k] = <<>>

\* C13: mark_complete has been called only when three adversarial rounds
\* have passed
C13_CompleteAfterThreeRounds ==
    work_complete => adv_round >= max_adv_rounds

\* C13 as amended: mark_complete has been called only when three
\* adversarial rounds have passed or the adversarial attempts are used up
C13_CompleteAfterRoundsOrAttempts ==
    work_complete =>
        \/ adv_round >= max_adv_rounds
        \/ adv_attempts > max_adv_attempts

\* the Judge declared the goal met after the third passed round
C13_Witness ==
    /\ work_complete
    /\ jpc = "done"
    /\ adv_round = max_adv_rounds
    /\ adv_attempts = max_adv_rounds

\* C15: the Judge finalizes as adversarial exhausted only after
\* max_adv_attempts consecutive rounds without a novel challenge
C15_ExhaustedAfterEmptyRounds ==
    [][(jpc # "done" /\ jpc' = "done" /\ adv_round' < max_adv_rounds)
          => jhist.empty_streak >= max_adv_attempts]_vars

\* C16: an adversarial round enqueues at most 2 tasks, with pairwise
\* distinct descriptions, none of them equal to a challenge enqueued since
\* the last adversarial failure, and their ids form adv_task_ids
C16_RoundTasksDistinct ==
    [][(jpc = "verifying" /\ jpc' # "verifying") =>
          LET new == (Len(tasks) + 1)..Len(tasks') IN
          /\ Cardinality(new) <= SampleSize
          /\ \A a, b \in new :
                a # b => tasks'[a].description # tasks'[b].description
          /\ \A a \in new : tasks'[a].description \notin jhist.enq
          /\ adv_task_ids' = new
          /\ queue' = queue \o [k \in 1..Cardinality(new) |-> Len(tasks) + k]]_vars

\* the adversarial batch is outstanding, all its tasks are terminal and one
\* of them is failed
AdvBatchFailed ==
    /\ adv_task_ids # {}
    /\ adv_task_ids \subseteq Ids(tasks)
    /\ \A i \in adv_task_ids : tasks[i].status \in {COMPLETED, FAILED}
    /\ \E i \in adv_task_ids : tasks[i].status = FAILED

\* C14: the pass of the Judge that finds the adversarial batch terminal with
\* a failed task clears the batch and sets refine_count, replan_count and
\* adv_round to 0, and no adversarial round starts after that before a
\* refine or replan step has been run again
C14_AdvFailRestartsCycle ==
    [][/\ (last'.op = "tick" /\ AdvBatchFailed) =>
             /\ adv_task_ids' = {}
             /\ refine_count' = 0
             /\ replan_count' = 0
             /\ adv_round' = 0
             /\ jhist'.refail
       /\ (jhist.refail /\ jpc # jpc') =>
             jpc' \in {"sleep", "judging", "refining", "replanning"}]_vars

\* the replan step runs a second time, which needs the reset after a failed
\* adversarial batch: a challenge task is in the store
C14_Witness ==
    /\ jpc = "replanning"
    /\ replan_count = max_replan_rounds
    /\ \E i \in Ids(tasks) : tasks[i].description \in Challenges

\* the Judge loop goes on: it sleeps, starts the next call of the ladder, or
\* ends the run because the adversarial attempts are used up
LoopGoesOn ==
    \/ jpc' \in {"sleep", "judging", "replanning", "verifying"}
    \/ jpc' = "done" /\ adv_attempts' > max_adv_attempts

\* C18: a failed LLM call of the Judge (per-task verification, refiner,
\* replanner, verifier) adds no task, changes no status and queues nothing,
\* and the loop goes on; after a failed verifier call it sleeps with no
\* adversarial batch added
C18_FailedCallAddsNothing ==
    [][(last' = Called(FALSE) \/ JudgeVerdictOf("failed")) =>
          /\ tasks' = tasks
          /\ queue' = queue
          /\ LoopGoesOn
          /\ jpc = "verifying" =>
                (jpc' = "sleep" /\ adv_task_ids' = adv_task_ids)]_vars

\* the replanner's call failed and the Judge went on to
\* the adversarial round
C18_Witness ==
    /\ last = Called(FALSE)
    /\ jpc = "verifying"
    /\ replan_count = max_replan_rounds

\* C20: when a worker calls task_done for a task it took, the store holds
\* the task as completed or failed
C20_TerminalBeforeTaskDone ==
    [][\A w \in Workers :
          (wpc[w] \in {"exec", "post"} /\ wpc'[w] = "idle") =>
              tasks'[wtask[w]].status \in {COMPLETED, FAILED}]_vars

\* a worker whose LLM call raised has called task_done and waits for the
\* next task; the task is failed with the error of the call
C20_Witness ==
    \E w \in Workers :
       /\ wpc[w] = "idle"
       /\ wtask[w] \in Ids(tasks)
       /\ tasks[wtask[w]].status = FAILED
       /\ tasks[wtask[w]].error = LlmError

\* what a finished execution stores, but for the followups
StoredOutcome(w, o) ==
    LET id == wtask[w] IN
    /\ o.tag = "none" => o.status = "done"
    /\ tasks'[id].status \in {COMPLETED, FAILED}
    /\ tasks'[id].status = COMPLETED <=> (~o.raised /\ o.status = "done")
    /\ tasks'[id].status = COMPLETED =>
          completed_queue' = Append(completed_queue, id)
    /\ tasks'[id].status = FAILED => completed_queue' = completed_queue
    /\ (~o.raised /\ o.status = "partial") => tasks'[id].error = PartialError
    /\ o.raised => tasks'[id].error = LlmError

\* C19: a finished execution stores completed exactly when the call
\* returned and the parsed status is done (the default without a status
\* tag) and then notifies the Judge; a parsed partial stores failed with
\* 'worker reported partial' and the parsed followups; a raised call stores
\* failed with its error whatever the output says
C19_WorkerOutcomeStored ==
    [][\A w \in Workers : \A o \in AllOutcomes :
          WorkerFinishOf(w, o) =>
              /\ StoredOutcome(w, o)
              /\ (~o.raised /\ o.status = "partial") =>
                     tasks'[wtask[w]].followups = o.followups]_vars

\* C19 as amended: the followups stored with a failed task are the parsed
\* ones when any were parsed; otherwise the task keeps the followups it had
C19_WorkerOutcomeKeepsFollowups ==
    [][\A w \in Workers : \A o \in AllOutcomes :
          WorkerFinishOf(w, o) =>
              /\ StoredOutcome(w, o)
              /\ tasks'[wtask[w]].status = FAILED =>
                     tasks'[wtask[w]].followups =
                        IF o.followups # <<>> THEN o.followups
                        ELSE tasks[wtask[w]].followups
              /\ tasks'[wtask[w]].status = COMPLETED =>
                     tasks'[wtask[w]].followups = tasks[wtask[w]].followups]_vars

\* a task that was retried is failed as partial and holds followups
C19_Witness ==
    \E i \in Ids(tasks) :
       /\ tasks[i].status = FAILED
       /\ tasks[i].error = PartialError
       /\ tasks[i].followups = <<"rest">>
       /\ tasks[i].retries = 1

\* C17: under fair scheduling the Judge eventually calls mark_complete and
\* its loop exits
C17_JudgeTerminates ==
    <>(work_complete /\ jpc \in {"done", "exited"})

\* the run ended after a task used up its retries and the refine, replan
\* and adversarial steps were all taken
C17_Witness ==
    /\ work_complete
    /\ jpc = "exited"
    /\ \E i \in Ids(tasks) :
          tasks[i].status = FAILED /\ tasks[i].retries = MAX_RETRIES
    /\ replan_count = max_replan_rounds
    /\ adv_attempts > max_adv_attempts

\* ---- C21 ----

\* C21: a task whose worker attribute names a worker is only ever executed
\* by the worker with that id: whenever a worker holds a task (executing it
\* or just done with it), the task is unpinned or pinned to that worker.
C21_PinnedOnNamedWorker ==
    \A w \in Workers :
        wpc[w] \in {"exec", "post"} =>
            tasks[wtask[w]].worker \in {"auto", worker_id(w)}

\* ---- C22 ----

\* the ids the depends attribute of the element at position p stands for:
\* for each decimal number k listed, in order, the id of the task of the
\* k-th element, unless k is out of range, is p itself, or names an
\* element that became no task
ElementDeps(elems, kept, p) ==
    LET nums == SelectSeq(elems[p].depends, LAMBDA e : e \in Decimals)
        Names(e) == /\ 1 <= int(e) /\ int(e) <= Len(elems) /\ int(e) # p
                    /\ \E i \in 1..Len(kept) : kept[i] = int(e)
        refs == SelectSeq(nums, Names)
    IN [j \in 1..Len(refs) |->
           CHOOSE i \in 1..Len(kept) : kept[i] = int(refs[j])]

\* C22: every planner output is parsed without error, and each number k of
\* a depends attribute resolves to the id of the k-th <task> element, in
\* the order listed; other entries are dropped.
C22_DependsResolveToElements ==
    last.op \in {"planned", "ValueError"} =>
        /\ last.op = "planned"
        /\ \A i \in 1..Len(last.elem) :
              last.depends_on[i] =
                 ElementDeps(last.elems, last.elem, last.elem[i])

\* ---- C23 ----

\* C23: every id in a planned task's depends_on belongs to a task that
\* appears earlier in the planner's output.
C23_DependsOnEarlierTasks ==
    last.op = "planned" =>
        \A i \in 1..Len(tasks) : \A d \in tasks[i].depends_on : d < i

\* ---- C24 ----

\* the reply is a reject that states no gap
RejectWithoutGaps(reply) ==
    /\ reply.decision # "accept"
    /\ \A j \in 1..Len(reply.gap) : reply.gap[j] = ""
    /\ \A j \in 1..Len(reply.gaps_block.lines) : reply.gaps_block.lines[j] = ""

\* C24: a reply that is a reject with no gaps makes validate call the LLM
\* again, up to two more times; validate returns on such a reply only when
\* it is the third one, and then with the single gap 'rejected without
\* explanation'; on every other reply it returns at once.
C24_RetriesRejectWithoutGaps ==
    /\ last.op = "retry" =>
          RejectWithoutGaps(last.reply) /\ last.attempt <= max_retries
    /\ last.op = "return" =>
          IF RejectWithoutGaps(last.reply)
          THEN /\ last.attempt = max_retries
               /\ last.parsed.gaps = <<"rejected without explanation">>
          ELSE last.parsed = _parse(last.reply)

\* ---- C25 ----

\* C25: on timeout or cancellation of an LLM call SIGTERM is the first
\* signal sent; SIGKILL is sent only after it, when the process has not
\* exited within KillWait seconds; no signal is sent to a process that has
\* exited; afterwards execute raises the timeout error with the partial
\* result and the session id, or the cancellation.
C25_KillSequence ==
    [][/\ proc'.signals # proc.signals =>
            /\ proc.returncode = "None"
            /\ proc.why # "" \/ proc'.why # ""
            /\ proc'.signals \in {<<"SIGTERM">>, <<"SIGTERM", "SIGKILL">>}
            /\ Len(proc'.signals) = 2 => proc.elapsed = KillWait
       /\ (proc.pc # "left" /\ proc'.pc = "left" /\ proc'.why # "") =>
            IF proc'.why = "timeout" /\ ~proc'.cancelled
            THEN proc'.raised = [msg |-> "timeout",
                                 partial |-> proc.result_text,
                                 session_id |-> proc.session_id]
            ELSE proc'.raised = CancelledError]_vars

\* the process ignored SIGTERM for KillWait seconds, got SIGKILL, and the
\* timeout error carries the partial result
C25_Witness ==
    /\ proc.pc = "left"
    /\ proc.signals = <<"SIGTERM", "SIGKILL">>
    /\ proc.raised.msg = "timeout"
    /\ proc.raised.partial = "out"

\* ---- C26 ----

\* C26: an engine process started while another one holds the lock on
\* ship.lock never gets past the lock, exits with code 1, and leaves
\* tasks.json, work.json and the lock file as they were, whatever its
\* options are and whether or not the spec has changed.
C26_SecondProcessRefused ==
    boot.disk0.held # 0 =>
        /\ boot.pc \notin {"locked", "run"}
        /\ boot.pc = "exit" => boot.exit_code = 1
        /\ disk.tasks_json = boot.disk0.tasks_json
        /\ disk.work_json = boot.disk0.work_json
        /\ disk.lock = boot.disk0.lock

\* ---- C29 ----

\* the stored work is complete and the current spec has the stored hash;
\* the engine is started without --fresh and without --check
DoneAndUnchanged ==
    /\ ~boot.fresh /\ ~boot.check
    /\ _has_real_state(disk) /\ ~disk.corrupt
    /\ disk.work_json.is_complete
    /\ boot.text # ""
    /\ _spec_hash(boot.text) = disk.work_json.spec_hash

\* C29: started on a complete work state whose spec_hash is the hash of
\* the current spec, the engine exits at once with code 0: it takes no
\* lock and changes no file, no task and no queue.
C29_DoneExitsAtOnce ==
    [][(boot.pc = "start" /\ DoneAndUnchanged) =>
          /\ boot'.pc = "exit" /\ boot'.exit_code = 0
          /\ boot'.lock_fd = 0
          /\ disk' = disk
          /\ tasks' = tasks /\ queue' = queue
          /\ work_complete' = work_complete]_vars

\* the engine has exited with 0 on a finished run of the same spec
C29_Witness ==
    /\ boot.pc = "exit"
    /\ boot.exit_code = 0
    /\ boot.text = "spec A"
    /\ ~boot.fresh /\ ~boot.check
    /\ disk.work_json.is_complete
    /\ disk.work_json.spec_hash = _spec_hash("spec A")
    /\ disk.tasks_json.tasks[1].status = COMPLETED

\* ---- C27 ----

\* C27: from the signal on no task changes: a task in flight stays
\* running, or in the terminal status it had reached, and none becomes
\* pending; the Judge and every worker are cancelled, and when the process
\* exits, it exits with code 130.
C27_InterruptLeavesTasks ==
    [][/\ boot'.signalled =>
            /\ tasks' = tasks
            /\ jpc' \in {"cancel", "cancelled", "interrupted"}
            /\ \A w \in Workers :
                  wpc'[w] = "none" \/ wpc'[w] = "stopped"
                     \/ IsCancelling(wpc'[w])
       /\ (boot'.signalled /\ boot'.pc = "exit") =>
            /\ boot'.exit_code = 130
            /\ \A w \in Workers : wpc'[w] \in {"none", "stopped"}]_vars

\* the process has exited with 130 while a worker was executing a task,
\* which is still running in the store, and another task was completed
C27_Witness ==
    /\ boot.pc = "exit"
    /\ boot.exit_code = 130
    /\ \E i \in Ids(tasks) : tasks[i].status = RUNNING
    /\ \E i \in Ids(tasks) : tasks[i].status = COMPLETED

\* ---- C30 ----

\* at least one task exists and none is pending or running
AllTerminal ==
    /\ Len(tasks) >= 1
    /\ \A i \in Ids(tasks) : tasks[i].status \notin {PENDING, RUNNING}

\* C30 as stated: is_complete() is true exactly when work.is_complete is
\* set, or at least one task exists and none is pending or running, whether
\* the work state is present or absent.
C30_IsCompleteIff ==
    last.op = "is_complete" =>
        last.result = ((has_work /\ work_complete) \/ AllTerminal)

\* C30 amended: is_complete() is true exactly when the work state is
\* present and either work.is_complete is set or at least one task exists
\* and none is pending or running; without a work state it is false.
C30_IsCompleteIffWithWork ==
    last.op = "is_complete" =>
        last.result = (has_work /\ (work_complete \/ AllTerminal))

\* is_complete() has answered false on a store without work state whose
\* tasks are all terminal
C30_Witness ==
    /\ last.op = "is_complete"
    /\ ~has_work
    /\ AllTerminal
    /\ ~last.result

\* ---- C28 ----

\* what a StateManager constructed now would hold equals what this one holds
ReloadEqualsMemory ==
    /\ _load_tasks(disk.tasks_json) = tasks
    /\ _load_work(disk.work_json).has_work = has_work
    /\ _load_work(disk.work_json).is_complete = work_complete

C31_CompletedAtIffTerminal ==
    \A i \in Ids(tasks) :
        tasks[i].completed_at <=> tasks[i].status \in {COMPLETED, FAILED}

\* ---- C32 ----

\* C32: the start time of a task is set exactly when the task has at some
\* point had status running.
C32_StartedAtIffEverRunning ==
    \A i \in Ids(tasks) : tasks[i].started_at <=> hist[i].ever_running

\* C32 amended: the start time of a task is set exactly when the task has
\* had status running since it was created or last put back to pending by
\* retry_task or reset_interrupted_tasks.
C32_StartedAtIffRunningSinceReset ==
    \A i \in Ids(tasks) : tasks[i].started_at <=> hist[i].running_since_reset

\* a task that ran, failed and was retried waits on the queue without start
\* time
C32_Witness ==
    \E i \in Ids(tasks) :
        /\ hist[i].ever_running
        /\ tasks[i].status = PENDING
        /\ tasks[i].retries = 1
        /\ ~tasks[i].started_at
        /\ Count(queue, i) = 1

\* ---- C33 ----

\* the workers that are in _execute on task id
Executing(id) == {w \in Workers : wpc[w] \in {"exec", "post"} /\ wtask[w] = id}

\* C33: retry_task is applied only to a task whose status at that moment is
\* failed, and never to a task that is on the queue or that a worker is
\* executing: each task the Judge retries in a tick was failed when
\* retry_task was called, had no queue entry and no worker.
C33_RetryOnlyFailed ==
    [][last'.op = "tick" =>
          \A k \in 1..Len(last'.retried) :
             /\ last'.was[k] = FAILED
             /\ tasks[last'.retried[k]].status = FAILED
             /\ Count(queue, last'.retried[k]) = 0
             /\ Executing(last'.retried[k]) = {}]_vars

\* the Judge has retried a failed task, which is pending and on the queue
\* now, while a worker was executing another one
C33_Witness ==
    /\ last.op = "tick"
    /\ Len(last.retried) >= 1
    /\ tasks[last.retried[1]].status = PENDING
    /\ Count(queue, last.retried[1]) = 1
    /\ \E w \in Workers : wpc[w] = "exec" /\ tasks[wtask[w]].status = RUNNING

\* ---- C37 ----

\* C37: each task has at most one queue entry or one executing worker.
C37_OneEntryOrWorker ==
    \A i \in Ids(tasks) :
        Count(queue, i) + Cardinality(Executing(i)) <= 1

\* a retried task is on the queue once, a worker is executing another task,
\* and a task added after the start has been taken from the queue
C37_Witness ==
    /\ \E i \in Ids(tasks) :
          /\ tasks[i].retries = 1
          /\ Count(queue, i) = 1
          /\ Executing(i) = {}
    /\ \E j \in Ids(tasks) : Cardinality(Executing(j)) = 1
    /\ \E k \in Ids(tasks) :
          tasks[k].description # "plan" /\ hist[k].ever_running

\* ---- C34 ----

\* a task of the current adversarial batch is pending or running
BatchActive ==
    \E i \in adv_task_ids :
        i \in Ids(tasks) /\ tasks[i].status \in {PENDING, RUNNING}

\* C34: while a task of the current adversarial batch is pending or running
\* the Judge starts no refiner, replanner or verifier call, leaves adv_round
\* as it is and does not mark the work complete.
C34_WaitsForBatch ==
    [][BatchActive =>
          /\ jpc' \in {"refining", "replanning", "verifying"} => jpc' = jpc
          /\ jpc \notin {"refining", "replanning", "verifying"}
          /\ adv_round' = adv_round
          /\ work_complete' = work_complete]_vars

\* a pass of the Judge has found one task of the batch terminal and the
\* other one running, and the Judge sleeps again
C34_Witness ==
    /\ last.op = "tick"
    /\ jpc = "sleep"
    /\ \E i \in adv_task_ids : tasks[i].status = RUNNING
    /\ \E i \in adv_task_ids : tasks[i].status = COMPLETED

\* ---- C35 ----

\* no task is pending or running
Drained == \A i \in Ids(tasks) : tasks[i].status \notin {PENDING, RUNNING}

\* C35: when the Judge starts a refiner, replanner or verifier call (after
\* the retry loop of the same pass), and when it adds their tasks, no task
\* is pending or running; and within one pass the calls follow each other
\* in the order refine, replan, adversarial verification.
C35_LadderOnDrainedStore ==
    [][/\ (jpc' \in {"refining", "replanning", "verifying"} /\ jpc' # jpc)
            => Drained'
       /\ (jpc \in {"refining", "replanning", "verifying"}
            /\ Len(tasks') > Len(tasks)) => Drained
       /\ jpc = "replanning" => jpc' # "refining"
       /\ jpc = "verifying" => jpc' \notin {"refining", "replanning"}]_vars

\* ---- C36 ----

\* status, retries and error of task i are the same before and after the step
SameOutcome(i) ==
    /\ tasks'[i].status = tasks[i].status
    /\ tasks'[i].retries = tasks[i].retries
    /\ tasks'[i].error = tasks[i].error

\* the ids the retry loop of the pass recorded in last' wrote
WrittenByPass(i) ==
    /\ last'.op = "tick"
    /\ \/ \E k \in 1..Len(last'.retried) :
            last'.retried[k] = i /\ tasks[i].status = FAILED
       \/ i \in Flatten2(last'.rets)
            /\ tasks[i].status \in {PENDING, RUNNING}

\* C36: a step in which a per-task verification call of the Judge starts or
\* ends changes no task's status, retries or error, whether the call
\* returned a verdict or raised; when the last call of a pass ends, only
\* the retry loop of that pass writes tasks (failed tasks it retries and
\* pending or running tasks it cascades).
C36_VerdictChangesNoTask ==
    [][(\/ completed_queue # <<>> /\ completed_queue' = Tail(completed_queue)
        \/ jpc = "judging" /\ jpc' # "judging")
       => /\ Len(tasks') = Len(tasks)
          /\ \A i \in Ids(tasks) : SameOutcome(i) \/ WrittenByPass(i)]_vars

\* a verification call has raised, the next one is under way, and the
\* completed tasks stand as the workers left them
C36_Witness ==
    /\ jpc = "judging"
    /\ last.op = "verdict"
    /\ last.llm = "failed"
    /\ Cardinality({i \in Ids(tasks) : /\ tasks[i].status = COMPLETED
                                       /\ tasks[i].error = <<>>}) >= 2

\* ---- C40 ----

\* C40: the attempt counter of the adversarial rounds never decreases, in
\* particular not when a round passes or an adversarial failure resets the
\* other counters; every verifier call increments it by one and is made
\* with a counter of at most max_adv_attempts, so that a run makes at most
\* max_adv_attempts verifier calls.
C40_AtMostMaxAdvAttempts ==
    [][/\ adv_attempts' >= adv_attempts
       /\ adv_attempts' # adv_attempts => jpc # "verifying"
       /\ (jpc' = "verifying" /\ jpc # "verifying")
            => /\ adv_attempts' = adv_attempts + 1
               /\ adv_attempts' <= max_adv_attempts]_vars

\* the third verifier call is under way after a round that passed and a
\* round that failed (a task of its batch was retried, which the Judge
\* does only once the failure has cleared the batch)
C40_Witness ==
    /\ jpc = "verifying"
    /\ adv_attempts = max_adv_attempts
    /\ adv_round >= 1
    /\ \E i \in Ids(tasks) : /\ tasks[i].description \notin {"plan", "followup"}
                             /\ tasks[i].retries >= 1

\* ---- C39 ----

PriorCompleted == {i \in Ids(tasks) : hist[i].prior_completed}

\* C39: in a continued run every task that the interrupted run completed
\* has status completed in every state, no step writes any of its fields,
\* its id is never on the queue, and no worker ever holds it.
C39_PriorCompletedKept ==
    [][\A i \in PriorCompleted :
          /\ tasks[i].status = COMPLETED
          /\ tasks'[i] = tasks[i]
          /\ Count(queue', i) = 0
          /\ \A w \in Workers : wpc'[w] # "none" => wtask'[w] # i]_vars

\* the continued run has come to its end: a task of the interrupted run
\* stands completed and was never started, and a task that was pending at
\* startup was run and completed
C39_Witness ==
    /\ work_complete
    /\ \E i \in PriorCompleted : ~hist[i].ever_running
    /\ \E j \in Ids(tasks) :
          /\ tasks[j].description = "plan"
          /\ hist[j].ever_running
          /\ tasks[j].status = COMPLETED

\* ---- C38 ----

\* every pending task has an entry on the queue
PendingIsQueued ==
    \A i \in Ids(tasks) : tasks[i].status = PENDING => Count(queue, i) >= 1

IsPending(i) == i \in Ids(tasks) /\ tasks[i].status = PENDING

IsStarted(i) == i \in Ids(tasks) /\ tasks[i].status = RUNNING

\* cascade_failure has marked the task failed
IsCascaded(i) ==
    /\ i \in Ids(tasks)
    /\ tasks[i].status = FAILED
    /\ is_cascade_error(tasks[i].error)

====
